---- MODULE Spec2Model ----
(***************************************************************************)
(* Model of the transaction processor of validana-core                     *)
(* (src/unnamed/part_016 is src/basics/basic.ts): processTx, its           *)
(* validation, the create/delete contract handlers, the guest query        *)
(* surface querySC/querySCFast, reject/invalidate and finishProcessingTx,  *)
(* together with the database connection they talk to and the guest code   *)
(* (contract bodies, init bodies) they run.                                *)
(*                                                                         *)
(* processTx is an async function: every action below is one synchronous   *)
(* segment of it (from one await to the next), a synchronous call of the   *)
(* guest API by guest code, or the completion of the statement at the head *)
(* of the connection's queue.                                              *)
(***************************************************************************)
EXTENDS Integers, Sequences, FiniteSets, TLC

None == "undefined"

Min(S) == CHOOSE x \in S : \A y \in S : x <= y
Max(S) == CHOOSE x \in S : \A y \in S : x >= y

(***************************************************************************)
(* Strings.  A query is a TLA+ string; the regular expressions of querySC  *)
(* are evaluated character by character.                                   *)
(***************************************************************************)
Ch(s, i) == SubSeq(s, i, i)

UpperChars == "ABCDEFGHIJKLMNOPQRSTUVWXYZ"
LowerChars == "abcdefghijklmnopqrstuvwxyz"

\* Case folding of the regular expressions' i flag.
Lower(c) ==
    IF \E i \in 1..26 : Ch(UpperChars, i) = c
    THEN Ch(LowerChars, CHOOSE i \in 1..26 : Ch(UpperChars, i) = c)
    ELSE c

\* \s of a regular expression, and the characters String.trim() strips.
IsSpace(c) == c \in {" ", "\t", "\n"}

\* String.prototype.trim
Trim(s) ==
    LET idx == {i \in 1..Len(s) : ~IsSpace(Ch(s, i))}
    IN  IF idx = {} THEN "" ELSE SubSeq(s, Min(idx), Max(idx))

\* String.prototype.endsWith
EndsWith(s, t) == Len(s) >= Len(t) /\ SubSeq(s, Len(s) - Len(t) + 1, Len(s)) = t

\* The literal lit matches s at (1-based) position i; fold: with the i flag,
\* lit being given in lower case.
LitAt(s, i, lit, fold) ==
    /\ i >= 1
    /\ i + Len(lit) - 1 <= Len(s)
    /\ \A k \in 1..Len(lit) :
          (IF fold THEN Lower(Ch(s, i + k - 1)) ELSE Ch(s, i + k - 1)) = Ch(lit, k)

\* \s+ matches exactly the characters i..j of s.
SpacesAt(s, i, j) == i <= j /\ j <= Len(s) /\ \A k \in i..j : IsSpace(Ch(s, k))

\* query = query.trim(); if (!query.endsWith(";")) query += ";"
Normalize(query) ==
    LET t == Trim(query) IN IF EndsWith(t, ";") THEN t ELSE t \o ";"

ForbiddenPatterns == {";", "--", "localtime", "current_date", "current_time"}

\* A mutant of SearchForbidden: time requests are not looked for.
SearchForbidden_NoTime(s) ==
    LET hits == {i \in 1..Len(s) : \E p \in {";", "--"} : LitAt(s, i, p, TRUE)}
    IN  IF hits = {} THEN -1 ELSE Min(hits) - 1

\* query.search(/;|--|localtime|current_(?:date|time)/i): the 0-based index of
\* the leftmost match, -1 when there is none.
SearchForbidden(s) ==
    LET hits == {i \in 1..Len(s) : \E p \in ForbiddenPatterns : LitAt(s, i, p, TRUE)}
    IN  IF hits = {} THEN -1 ELSE Min(hits) - 1

ObjectWords == {"index", "table", "type"}

\* query.search(/^(?:alter\s+(?:index|table|type)|create\s+(?:(?:unique\s+)?index|table|type)
\*   |delete|drop\s+(?:index|table|type)|insert|select|update|with)/i): 0 or -1.
SearchAllowed(s) ==
    IF \/ \E w \in {"delete", "insert", "select", "update", "with"} : LitAt(s, 1, w, TRUE)
       \/ \E w \in {"alter", "drop"} :
             /\ LitAt(s, 1, w, TRUE)
             /\ \E j \in 1..Len(s) :
                   /\ SpacesAt(s, Len(w) + 1, j)
                   /\ \E o \in ObjectWords : LitAt(s, j + 1, o, TRUE)
       \/ /\ LitAt(s, 1, "create", TRUE)
          /\ \E j \in 1..Len(s) :
                /\ SpacesAt(s, 7, j)
                /\ \/ \E o \in ObjectWords : LitAt(s, j + 1, o, TRUE)
                   \/ /\ LitAt(s, j + 1, "unique", TRUE)
                      /\ \E k \in 1..Len(s) :
                            SpacesAt(s, j + 7, k) /\ LitAt(s, k + 1, "index", TRUE)
    THEN 0 ELSE -1

\* query.search(/^SET LOCAL (?:ROLE smartcontract(?:manager)?;|statement_timeout = .*)
\*   |SHOW statement_timeout;$/): the first alternative is anchored at the start,
\* the second at the end; the leftmost match wins.
SearchRoleTimeout(s) ==
    IF \E p \in {"SET LOCAL ROLE smartcontract;", "SET LOCAL ROLE smartcontractmanager;",
                 "SET LOCAL statement_timeout = "} : LitAt(s, 1, p, FALSE)
    THEN 0
    ELSE IF EndsWith(s, "SHOW statement_timeout;")
         THEN Len(s) - Len("SHOW statement_timeout;")
         ELSE -1

\* The checks of querySC before it looks at the connection: "multi" when the
\* first check raises, "action" when the second does, "pass" otherwise.
QueryCheck(query, special) ==
    LET q == Normalize(query)
    IN  IF SearchForbidden(q) # Len(q) - 1 THEN "multi"
        ELSE IF SearchAllowed(q) # 0 /\ (~special /\ SearchRoleTimeout(q) # 0)
             THEN "action"
             ELSE "pass"

(***************************************************************************)
(* Values.                                                                 *)
(***************************************************************************)
\* A JavaScript value handed over by guest code: its typeof and its content.
Str(s) == [type |-> "string", val |-> s]
Undefined == [type |-> "undefined", val |-> ""]
NonString == [type |-> "number", val |-> "1"]

\* Basic.createContractHash (32 zero bytes) and Basic.deleteContractHash (32 bytes 255).
createContractHash == "00"
deleteContractHash == "ff"

\* The strict prolog prepended to the source of a contract whose validanaVersion is not 1.
Prolog == "\"use strict\";"

\* Crypto.hash256, as a collision-free function of the text hashed.
hash256(code) == "h:" \o code

\* payload.code after base64 and utf8 decoding: empty, or a body.
Codes == {"", "x"}

\* The hashes a transaction may name besides those of created contracts: a hash
\* no contract has.
UnknownHash == "h:none"

UserHashes == {hash256(Prolog \o "x"), hash256("x"), UnknownHash}

Addresses == {"A1", "A2"}

\* SQLSTATE codes a failing statement may carry; None: an error without a code
\* (not raised by the database server).
ErrorCodes == {"23505", "08006", "08P01", "XX001", "42601", None}

\* rows[0].statement_timeout values of the session.
Timeouts == {"0", "5s"}

(***************************************************************************)
(* Bounds.                                                                 *)
(***************************************************************************)
\* processTx is called at most MaxTx times in a run, and guest code makes at most
\* MaxSteps calls of reject, query and queryFast in a run.
MaxTx == 2
MaxSteps == 2

(***************************************************************************)
(* State.                                                                  *)
(***************************************************************************)
VARIABLES
    this,          \* the processor instance: isProcessing, contractMap, signPrefix
    Basic,         \* the static fields of class Basic (the outcome of the transaction)
    sandboxed,     \* Sandbox.sandboxed
    client,        \* Basic.client: "connected" or undefined
    pc,            \* where the admitted processTx call is: idle, exec, drain, report, exited
    inFlight,      \* number of admitted processTx calls that have not resolved
    raised,        \* the error the latest processTx call threw at its caller, if any
    validatedTx,   \* the argument of finishProcessingTx: the validated transaction
    version,       \* the version argument of finishProcessingTx
    handler,       \* where createContract / deleteContract is, and its local variables
    main,          \* the guest code processTx awaits: none, run, wait
    stray,         \* guest code that runs detached from the awaited promise
    dbQueue,       \* statements submitted to the connection, in order of submission
    db,            \* the database session: role, statement_timeout, basics.contracts
    result,        \* what the latest admitted processTx call resolved with
    exitCode,      \* the code the process exited with
    obs,           \* observations of the run the properties are stated on
    lab            \* the value a function of the library is applied to, and what it gave

vars == <<this, Basic, sandboxed, client, pc, inFlight, raised, validatedTx, version,
          handler, main, stray, dbQueue, db, result, exitCode, obs, lab>>

\* The variables of the processor instance and of the run.
procVars == <<this, Basic, sandboxed, client, pc, inFlight, raised, validatedTx, version,
              handler, main, stray, dbQueue, db, result, exitCode, obs>>

(***************************************************************************)
(* Basic.reject and Basic.invalidate.                                      *)
(***************************************************************************)
reject(B, reason) ==
    IF B.txRejectReason = None
    THEN [B EXCEPT !.txRejectReason =
            IF reason.type = "string" THEN reason.val ELSE "Unknown reject reason"]
    ELSE B

\* A mutant of invalidate: the latest reason wins.
invalidate_Overwrite(B, reason, retry, error, code) ==
    [B EXCEPT !.txInvalidReason = reason, !.txShouldRetry = retry,
              !.txError = error, !.txErrorExitCode = code]

invalidate(B, reason, retry, error, code) ==
    IF B.txInvalidReason = None
    THEN [B EXCEPT !.txInvalidReason = reason, !.txShouldRetry = retry,
                   !.txError = error, !.txErrorExitCode = code]
    ELSE B

(***************************************************************************)
(* The statements the handlers issue, and the statements guest code is     *)
(* given to issue.                                                         *)
(***************************************************************************)
SetRoleManager == "SET LOCAL ROLE smartcontractmanager;"
SetRoleContract == "SET LOCAL ROLE smartcontract;"
ShowTimeout == "SHOW statement_timeout;"
SetTimeoutZero == "SET LOCAL statement_timeout = 0;"
SelectContract == "SELECT FROM basics.contracts WHERE contract_hash = $1;"
InsertContract ==
    "INSERT INTO basics.contracts (contract_hash, contract_type, contract_version, description, "
    \o "creator, contract_template, code, validana_version) VALUES ($1, $2, $3, $4, $5, $6, $7, $8);"
DeleteContract == "DELETE FROM basics.contracts WHERE contract_hash = $1 AND creator = $2;"

\* `SET LOCAL statement_timeout = '${statementTimeout}';`
RestoreTimeout(value) == "SET LOCAL statement_timeout = '" \o value \o "';"

\* What guest code passes to query, to queryFast, and to queryFast from a
\* function it did not await.
QueryTexts ==
    {"SELECT 1", "SELECT localtime;", "CREATE SEQUENCE s;",
     "SET LOCAL ROLE smartcontractmanager;", "DELETE FROM basics.contracts;"}
FastTexts == {"SELECT 1", "SELECT localtime;"}
StrayTexts == {"SELECT 1", "SELECT localtime;"}

\* All texts querySC is called with, and for each of them the text it goes on
\* with and the outcome of its checks, by isSpecialContract.
CallTexts ==
    QueryTexts \cup FastTexts \cup StrayTexts
    \cup {SetRoleManager, SetRoleContract, ShowTimeout, SetTimeoutZero, SelectContract,
          InsertContract, DeleteContract}
    \cup {RestoreTimeout(v) : v \in Timeouts}

AllTexts == CallTexts \cup {Normalize(q) : q \in CallTexts}

Normalized == [q \in AllTexts |-> Normalize(q)]

Checked == [q \in AllTexts |-> [special \in BOOLEAN |-> QueryCheck(q, special)]]

\* A row of basics.contracts, and the parameters of a statement.
NoRow == [contract_hash |-> "", contract_type |-> "", creator |-> "",
          contract_template |-> "", code |-> "", validana_version |-> 0]
NoArg == [hash |-> "", creator |-> "", row |-> NoRow]

(***************************************************************************)
(* The database session behind Basic.client.  Statements run one at a      *)
(* time, in the order they were submitted.                                 *)
(***************************************************************************)
\* The privileges of SetupDB.sql: only smartcontractmanager reaches basics.contracts.
MayManage(d) == d.role = "smartcontractmanager"

\* The outcome of statement e in session d when the server runs it: the session
\* after it, whether it fails and with which SQLSTATE, and what it returns.
\* A statement in a transaction that has failed is not run (25P02).
Execute(d, e) ==
    LET q == e.query
        ok(d2, n, v) == [db |-> d2, failed |-> FALSE, code |-> None, count |-> n, value |-> v]
        fail(c) == [db |-> [d EXCEPT !.aborted = TRUE], failed |-> TRUE, code |-> c,
                    count |-> 0, value |-> ""]
    IN  CASE d.aborted -> fail("25P02")
          [] q = SetRoleManager -> ok([d EXCEPT !.role = "smartcontractmanager"], 0, "")
          [] q = SetRoleContract -> ok([d EXCEPT !.role = "smartcontract"], 0, "")
          [] q = ShowTimeout -> ok(d, 1, d.timeout)
          [] q = SetTimeoutZero -> ok([d EXCEPT !.timeout = "0"], 0, "")
          [] q = RestoreTimeout("0") -> ok([d EXCEPT !.timeout = "0"], 0, "")
          [] q = RestoreTimeout("5s") -> ok([d EXCEPT !.timeout = "5s"], 0, "")
          [] q = SelectContract ->
                IF MayManage(d)
                THEN ok(d, Cardinality({r \in d.contracts : r.contract_hash = e.arg.hash}), "")
                ELSE fail("42501")
          [] q = InsertContract ->
                IF ~MayManage(d) THEN fail("42501")
                ELSE IF \E r \in d.contracts : r.contract_hash = e.arg.row.contract_hash
                     THEN fail("23505")
                     ELSE ok([d EXCEPT !.contracts = @ \cup {e.arg.row}], 1, "")
          [] q = DeleteContract ->
                IF MayManage(d)
                THEN LET gone == {r \in d.contracts : r.contract_hash = e.arg.hash
                                                       /\ r.creator = e.arg.creator}
                     IN  ok([d EXCEPT !.contracts = @ \ gone], Cardinality(gone), "")
                ELSE fail("42501")
          [] q = "DELETE FROM basics.contracts;" ->
                IF MayManage(d)
                THEN ok([d EXCEPT !.contracts = {}], Cardinality(d.contracts), "")
                ELSE fail("42501")
          [] OTHER -> ok(d, 0, "")

(***************************************************************************)
(* Basic.querySC, up to its await of Basic.client.query.                   *)
(***************************************************************************)
\* An entry of the connection's queue.  owner: who awaits it (main, stray,
\* handler) or "fast" for a promise of processFastQueries; arr: whether that
\* promise is in processFastQueries ("arr"), also in the array Promise.all was
\* called with ("snap"), or in neither ("no"); special: Basic.isSpecialContract
\* when querySC sent it; cur: issued during the processTx call admitted last.
Entry(query, arg, owner, special, inCall) ==
    [query |-> Normalized[query], arg |-> arg, owner |-> owner,
     arr |-> IF owner = "fast" THEN "arr" ELSE "no", special |-> special, cur |-> inCall]

\* The static fields B and the queue Q of the connection, as the calls of
\* querySC find and leave them; raised: the last call raised.
Thread(B, Q) == [B |-> B, Q |-> Q, raised |-> FALSE]

\* querySC invalidates and raises.
Refused(S, reason, retry) ==
    [S EXCEPT !.B = invalidate(@, reason, retry, "Error", 0), !.raised = TRUE]

\* A mutant of Submit: the statement is put before the ones that wait.
Submit_Front(S, check, cl, entry) ==
    IF check = "multi"
    THEN Refused(S, "Invalid query: multiple queries, comments or time request.", FALSE)
    ELSE IF check = "action" THEN Refused(S, "Invalid query: action not allowed.", FALSE)
    ELSE IF cl = None THEN Refused(S, "No database connection.", TRUE)
    ELSE [S EXCEPT !.Q = <<entry>> \o @, !.raised = FALSE]

\* querySC after its checks of the text, with their outcome.
Submit(S, check, cl, entry) ==
    IF check = "multi"
    THEN Refused(S, "Invalid query: multiple queries, comments or time request.", FALSE)
    ELSE IF check = "action" THEN Refused(S, "Invalid query: action not allowed.", FALSE)
    ELSE IF cl = None THEN Refused(S, "No database connection.", TRUE)
    ELSE [S EXCEPT !.Q = Append(@, entry), !.raised = FALSE]

\* The synchronous part of querySC(query, params).
querySC(S, cl, query, arg, owner, inCall) ==
    Submit(S, Checked[query][S.B.isSpecialContract], cl,
           Entry(query, arg, owner, S.B.isSpecialContract, inCall))

\* The promise of querySC, with its catch, is pushed on processFastQueries.  A
\* promise of a call that raised is settled at once, by its catch.
Pushed(r) ==
    [r EXCEPT !.B = [(IF r.raised
                      THEN invalidate(r.B, "Error during contract execution", FALSE, "Error", 0)
                      ELSE r.B) EXCEPT !.processFastQueries = Append(@, r.raised)],
              !.raised = FALSE]

\* Basic.querySCFast
querySCFast(S, cl, query, arg, inCall) ==
    Pushed(querySC(S, cl, query, arg, "fast", inCall))

\* A mutant of queryFailed: a connection problem is an error like any other.
queryFailed_NoRetry(B, code) ==
    IF code = None
    THEN invalidate(B, "Unknown error during execution", FALSE, "Error", 2)
    ELSE IF code \in {"XX001", "XX002"}
    THEN invalidate(B, "Database corrupted", TRUE, "Error", 51)
    ELSE IF SubSeq(code, 1, 2) = "23"
    THEN B
    ELSE invalidate(B, "Error during contract execution", FALSE, "Error", 0)

\* The catch block of querySC for a statement that failed with SQLSTATE code.
queryFailed(B, code) ==
    IF code = None
    THEN invalidate(B, "Unknown error during execution", FALSE, "Error", 2)
    ELSE IF code \in {"XX001", "XX002"}
    THEN invalidate(B, "Database corrupted", TRUE, "Error", 51)
    ELSE IF SubSeq(code, 1, 2) = "08" /\ code # "08P01"
    THEN invalidate(B, "Database connection problem.", TRUE, "Error", 0)
    ELSE IF SubSeq(code, 1, 2) = "23"
    THEN B
    ELSE invalidate(B, "Error during contract execution", FALSE, "Error", 0)

(***************************************************************************)
(* Transactions and the contract registry.                                 *)
(***************************************************************************)
\* A 32-byte value that is not hash256("x") and that Buffer.toString() decodes
\* to the same text: bytes that are not valid UTF-8 all decode to U+FFFD.
AliasHash == "h:x~"

\* Buffer.prototype.toString() of a contract hash, the key of contractMap.
toString(h) == IF h = AliasHash THEN "utf8:" \o hash256("x") ELSE "utf8:" \o h

\* The payload of a create contract transaction (template, init and code after
\* decoding; lens: which length limit the texts exceed; check: what checkCode and
\* the AsyncFunction constructor find in the sources) or, with hash, of a delete
\* contract transaction.  object: the payload text parses to a JSON object;
\* keys: the keys of that object.
NoPayload == [type |-> "", lens |-> "ok", vv |-> "absent", template |-> "",
              init |-> "", code |-> "", check |-> "ok", hash |-> "",
              object |-> TRUE, keys |-> {}]

NoTx == [defined |-> FALSE, contractHash |-> "", from |-> "", payload |-> NoPayload]

\* payload.validanaVersion ?? 1
VersionOf(vv) ==
    CASE vv = "absent" -> 1 [] vv = "0" -> 0 [] vv = "1" -> 1 [] vv = "2" -> 2 [] OTHER -> 3

\* The source compiled and hashed: with the prolog unless validanaVersion is 1.
Source(code, vv) == IF VersionOf(vv) # 1 THEN Prolog \o code ELSE code

\* JSON.parse of payload.template given as a string (in the sandbox, undefined
\* when it does not parse).
ParseTemplate(t) == IF t = "str:{}" THEN "obj:{}" ELSE None

\* The template createContract goes on with.
TemplateOf(t) == IF SubSeq(t, 1, 4) = "str:" THEN ParseTemplate(t) ELSE t

\* Map.prototype.set and Map.prototype.delete
MapSet(m, k, v) == [x \in DOMAIN m \cup {k} |-> IF x = k THEN v ELSE m[x]]
MapDelete(m, k) == [x \in DOMAIN m \ {k} |-> m[x]]

\* The entry loadSmartContracts builds of a row of basics.contracts; the compiled
\* function is represented by the source it is compiled from.
ContractOfRow(row) ==
    [creator |-> row.creator, type |-> row.contract_type, template |-> row.contract_template,
     code |-> IF row.validana_version # 1 THEN Prolog \o row.code ELSE row.code,
     validanaVersion |-> row.validana_version]

\* The registry loadSmartContracts builds of basics.contracts.
loadSmartContracts(contracts) ==
    [k \in {toString(r.contract_hash) : r \in contracts} |->
        ContractOfRow(CHOOSE r \in contracts : toString(r.contract_hash) = k)]

\* The first check of createContract that does not pass: the reason it rejects
\* with, "throw" when it raises, None when all pass.
CreateChecks(payload, from, processor) ==
    LET tpl == TemplateOf(payload.template)
        v == VersionOf(payload.vv)
    IN  IF from # processor THEN "User is not allowed to create a contract."
        ELSE IF payload.lens = "type" THEN "Trying to create an invalid contract: type too long"
        ELSE IF payload.lens = "version"
        THEN "Trying to create an invalid contract: version too long"
        ELSE IF payload.lens = "description"
        THEN "Trying to create an invalid contract: description too long"
        ELSE IF v < 1 \/ v > 2 THEN "Unsupported contract version"
        ELSE IF tpl = None \/ SubSeq(tpl, 1, 4) # "obj:"
        THEN "Trying to create an invalid contract: template is not an object."
        ELSE IF tpl = "obj:bad"
        THEN "Trying to create an invalid contract: template has invalid values: k"
        ELSE IF payload.init = "" /\ payload.code = ""
        THEN "Trying to create an invalid contract: init and/or code has to be defined"
        ELSE IF payload.check = "initTryCatch"
        THEN "Trying to create an invalid contract (" \o payload.type
             \o "): contract may not use 'try catch', instead use 'await query().catch()'."
        ELSE IF payload.check = "initSyntax" THEN "throw"
        ELSE IF payload.check = "codeNoAwait"
        THEN "Trying to create an invalid contract (" \o payload.type
             \o "): contract must use 'await query()' instead of 'query()'"
        ELSE IF payload.check = "codeSyntax" THEN "throw"
        ELSE None

\* The payloads of the create contract transactions submitted.
CreatePayloads ==
    {[NoPayload EXCEPT !.type = "ta", !.template = "obj:{}", !.vv = v, !.init = i, !.code = c] :
        v \in {"absent", "2"}, i \in {"", "i"}, c \in Codes}
    \cup {[NoPayload EXCEPT !.type = "tb", !.template = t, !.vv = "1", !.code = "x"] :
        t \in {"str:{}", "str:{", "arr:[]", "obj:bad"}}
    \cup {[NoPayload EXCEPT !.type = "ta", !.template = "obj:{}", !.code = "x", !.lens = l] :
        l \in {"type", "version", "description"}}
    \cup {[NoPayload EXCEPT !.type = "ta", !.template = "obj:{}", !.code = "x", !.vv = v] :
        v \in {"0", "3"}}
    \cup {[NoPayload EXCEPT !.type = "ta", !.template = "obj:{}", !.code = "x", !.init = "i",
                            !.check = k] :
        k \in {"initTryCatch", "initSyntax", "codeNoAwait", "codeSyntax"}}

\* The templates of the create and the delete contract, and the template
\* JSON.parse gives of the text of a contract's row: keys with their types, in
\* the order of Object.keys.
createContractTemplate ==
    << <<"type", "str">>, <<"version", "str">>, <<"description", "str">>,
       <<"template", "json">>, <<"init", "base64">>, <<"code", "base64">>,
       <<"validanaVersion", "uint?">> >>

deleteContractTemplate == << <<"hash", "hash">> >>

TemplateEntries(tpl) == IF tpl = "obj:{}" THEN << >> ELSE << <<"k", "str">> >>

\* Transaction.checkType of a value that is undefined.
checkType(type, v) ==
    CASE type = "bool" -> "Payload has invalid or missing boolean type"
      [] type = "int" -> "Payload has invalid or missing int type"
      [] type = "uint" -> "Payload has invalid or missing uint type"
      [] type = "float" -> "Payload has invalid or missing float type"
      [] type = "addr" -> "Payload has invalid or missing address type"
      [] type = "hex" -> "Payload has invalid or missing hex type"
      [] type = "hash" -> "Payload has invalid or missing hash type"
      [] type = "base64" -> "Payload has invalid or missing base64 type"
      [] type = "json" -> IF v = 1 THEN "Payload has invalid or missing json type" ELSE None
      [] type = "id" -> "Payload has invalid or missing id type"
      [] OTHER -> "Payload has invalid or missing string type"

\* The check of one key of the template; the values the payloads submitted
\* give to the keys they have are of the type the template asks for.
CheckKey(keys, e, v) ==
    LET n == Len(e[2])
    IN  IF e[1] \in keys THEN None
        ELSE IF n > 5 /\ SubSeq(e[2], n - 4, n) = "Array"
        THEN "Payload has invalid or missing array type"
        ELSE IF n > 1 /\ SubSeq(e[2], n, n) = "?" /\ v # 1 THEN None
        ELSE checkType(e[2], v)

\* Transaction.verifyTemplate: the error string, None for undefined.
verifyTemplate_NoExtra(payload, template, v) ==
    LET bad == {i \in 1..Len(template) : CheckKey(payload.keys, template[i], v) # None}
    IN  IF ~payload.object THEN "Payload is invalid json."
        ELSE IF bad # {} THEN CheckKey(payload.keys, template[Min(bad)], v)
        ELSE None

verifyTemplate(payload, template, v) ==
    LET bad == {i \in 1..Len(template) : CheckKey(payload.keys, template[i], v) # None}
    IN  IF ~payload.object THEN "Payload is invalid json."
        ELSE IF \E k \in payload.keys : \A i \in 1..Len(template) : template[i][1] # k
        THEN "Payload has extra key."
        ELSE IF bad # {} THEN CheckKey(payload.keys, template[Min(bad)], v)
        ELSE None

\* The hashes delete contract transactions name.
DeleteHashes == {hash256("x"), hash256(Prolog \o "x"), AliasHash}

\* The transactions submitted, with the arguments of the call.  The checks of
\* validateTx do not look at the contract, so they are varied on one contract.
BaseInput ==
    [ctorError |-> None, verifySignature |-> FALSE, signatureValid |-> TRUE, validTill |-> 0,
     previousBlockTs |-> 1, contractHash |-> UnknownHash, from |-> "A1", processor |-> "A1",
     payload |-> NoPayload]

\* A payload with the keys of the template of the create contract
\* (validanaVersion when the payload gives one) or of the delete contract.
CreateKeys(p) ==
    [p EXCEPT !.keys = {"type", "version", "description", "template", "init", "code"}
                       \cup (IF p.vv = "absent" THEN {} ELSE {"validanaVersion"})]

ExtraKey == [NoPayload EXCEPT !.keys = {"extrakey"}]

ValidationInputs ==
    {[BaseInput EXCEPT !.ctorError = "Unsupported version."]}
    \cup {[BaseInput EXCEPT !.verifySignature = TRUE, !.signatureValid = sv] : sv \in BOOLEAN}
    \cup {[BaseInput EXCEPT !.validTill = vt] : vt \in {1, 2}}
    \cup {[BaseInput EXCEPT !.validTill = 1, !.previousBlockTs = 2]}

ContractInputs ==
    {[BaseInput EXCEPT !.contractHash = h] : h \in UserHashes \cup {AliasHash}}
    \cup {[BaseInput EXCEPT !.contractHash = hash256(Prolog \o "x"),
                            !.payload = ExtraKey]}
    \cup {[BaseInput EXCEPT !.contractHash = createContractHash, !.payload = CreateKeys(p)] :
            p \in CreatePayloads}
    \cup {[BaseInput EXCEPT !.contractHash = createContractHash, !.from = "A2",
                            !.payload = CreateKeys(CHOOSE p \in CreatePayloads :
                                                       p.check = "codeSyntax")]}
    \cup {[BaseInput EXCEPT !.contractHash = createContractHash, !.payload = p] :
            p \in {ExtraKey, [NoPayload EXCEPT !.object = FALSE]}}
    \cup {[BaseInput EXCEPT !.contractHash = deleteContractHash, !.from = f,
                            !.payload = [NoPayload EXCEPT !.hash = h, !.keys = {"hash"}]] :
            f \in Addresses, h \in DeleteHashes}

TxInputs == ValidationInputs \cup ContractInputs

(***************************************************************************)
(* Initial state: a connected processor that is not processing, an empty   *)
(* basics.contracts and the registry loaded from it.                       *)
(***************************************************************************)
HandlerIdle == [at |-> "none", statementTimeout |-> ""]

BasicInit ==
    [txError |-> None, txErrorExitCode |-> 0, txInvalidReason |-> None,
     txRejectReason |-> None, txAcceptReason |-> Undefined, txShouldRetry |-> FALSE,
     processFastQueries |-> <<>>, txContractHash |-> "", isSpecialContract |-> FALSE]

\* sqlstate: the code of the error the last statement answered failed with
\* ("00000" when it succeeded, "nocode" for an error without a code).
DbInit ==
    [role |-> "smartcontract", timeout |-> "5s", contracts |-> {}, aborted |-> FALSE,
     sqlstate |-> "00000"]

\* The arguments of a processTx call that validateTx looks at.
ArgsOf(t) ==
    [ctorError |-> t.ctorError, verifySignature |-> t.verifySignature,
     signatureValid |-> t.signatureValid, validTill |-> t.validTill,
     previousBlockTs |-> t.previousBlockTs]

NoArgs ==
    [ctorError |-> None, verifySignature |-> FALSE, signatureValid |-> TRUE, validTill |-> 0,
     previousBlockTs |-> 0]

\* What is observed of a run: the number of processTx calls made (txs) and of
\* calls guest code made (steps).  Of a processTx call: a reject or an invalidate that found a
\* reason recorded (rejectAgain, invalidateAgain); a fast query of the call that
\* failed (fastFailed); guest code called query or queryFast with a text that has
\* a second statement, a comment or a time request (forbidden: "first" when no
\* invalid reason was recorded at that moment, "later" otherwise), and with a
\* text whose first keyword is not in the list while isSpecialContract was false
\* (keyword), one of the role and timeout statements among them (role); the
\* code of the error the last query the contract awaited raised to it (error:
\* "none" when it raised none, "nocode" for an error without a code); a query
\* of guest code failed with XX001 or XX002 (corrupted), and a call of guest
\* code found no connection or a query the contract awaited failed with a code
\* of class 08 other than 08P01 (noConnection), each "first" or "later" as for
\* forbidden; the value a user contract returned (returned); the arguments of the call
\* (args); the DELETE of deleteContract deleted no row (missed: "first" when
\* neither an invalid nor a reject reason was recorded at that moment, "later"
\* otherwise).  Of the run: all calls so far were create or delete contract
\* transactions that were accepted (onlyAccepted).
NoReturn == [type |-> "none", val |-> ""]

ObsInit ==
    [txs |-> 0, steps |-> 0, rejectAgain |-> FALSE, invalidateAgain |-> FALSE, fastFailed |-> FALSE,
     forbidden |-> "none", keyword |-> FALSE, role |-> FALSE, onlyAccepted |-> TRUE,
     error |-> "none", corrupted |-> "none", noConnection |-> "none", returned |-> NoReturn,
     args |-> NoArgs, missed |-> "none"]

NoResult == [status |-> "none", message |-> Undefined]

Constructed(prefix) ==
    /\ this = [isProcessing |-> FALSE, contractMap |-> loadSmartContracts(DbInit.contracts),
               signPrefix |-> prefix]
    /\ Basic = BasicInit
    /\ sandboxed = FALSE
    /\ client = "connected"
    /\ pc = "idle"
    /\ inFlight = 0
    /\ raised = None
    /\ validatedTx = NoTx
    /\ version = 2
    /\ handler = HandlerIdle
    /\ main = "none"
    /\ stray = "none"
    /\ dbQueue = <<>>
    /\ db = DbInit
    /\ result = NoResult
    /\ exitCode = 0
    /\ obs = ObsInit

InitWith(prefix) == Constructed(prefix) /\ lab = None

Init == InitWith("bla")

\* A processor constructed with or without a sign prefix.
InitAnyPrefix == \E prefix \in {"bla", None} : InitWith(prefix)

(***************************************************************************)
(* processTx, from its call to its first await.                            *)
(***************************************************************************)
\* A mutant of StillProcessing: no call is refused.
StillProcessing_Never == FALSE

\* The guard of processTx: this.isProcessing.
StillProcessing == this.isProcessing

\* The reset of the outcome at the start of processTx.
Prepare(B) ==
    [B EXCEPT !.txError = None, !.txErrorExitCode = 0, !.txShouldRetry = FALSE,
              !.txInvalidReason = None, !.txRejectReason = None,
              !.processFastQueries = <<>>, !.isSpecialContract = FALSE]

\* processFastQueries.splice(0) takes the pending promises out of the array, and
\* the statements left from earlier calls are not of this call.
Spliced(Q) == [i \in 1..Len(Q) |-> [Q[i] EXCEPT !.arr = "no", !.cur = FALSE]]

\* validateTx: the static state after it, and whether the transaction is valid.
validateTx_AnyPrefix(B, t, prefix) ==
    IF t.ctorError # None
    THEN [B |-> invalidate(B, t.ctorError, FALSE, None, 0), valid |-> FALSE]
    ELSE IF t.verifySignature /\ ~t.signatureValid
    THEN [B |-> invalidate(B, "Invalid signature.", FALSE, None, 0), valid |-> FALSE]
    ELSE IF t.validTill # 0 /\ t.previousBlockTs >= t.validTill
    THEN [B |-> invalidate(B, "Transaction valid till expired.", FALSE, None, 0),
          valid |-> FALSE]
    ELSE [B |-> B, valid |-> TRUE]

validateTx_NeverExpires(B, t, prefix) ==
    IF t.ctorError # None
    THEN [B |-> invalidate(B, t.ctorError, FALSE, None, 0), valid |-> FALSE]
    ELSE IF t.verifySignature /\ prefix = None
    THEN [B |-> invalidate(B, "Cannot validate transaction signature without sign prefix.",
                           TRUE, "Error", 0), valid |-> FALSE]
    ELSE IF t.verifySignature /\ ~t.signatureValid
    THEN [B |-> invalidate(B, "Invalid signature.", FALSE, None, 0), valid |-> FALSE]
    ELSE [B |-> B, valid |-> TRUE]

validateTx(B, t, prefix) ==
    IF t.ctorError # None
    THEN [B |-> invalidate(B, t.ctorError, FALSE, None, 0), valid |-> FALSE]
    ELSE IF t.verifySignature /\ prefix = None
    THEN [B |-> invalidate(B, "Cannot validate transaction signature without sign prefix.",
                           TRUE, "Error", 0), valid |-> FALSE]
    ELSE IF t.verifySignature /\ ~t.signatureValid
    THEN [B |-> invalidate(B, "Invalid signature.", FALSE, None, 0), valid |-> FALSE]
    ELSE IF t.validTill # 0 /\ t.previousBlockTs >= t.validTill
    THEN [B |-> invalidate(B, "Transaction valid till expired.", FALSE, None, 0),
          valid |-> FALSE]
    ELSE [B |-> B, valid |-> TRUE]

\* The template check of processTx: txContractHash, txRejectReason, isSpecialContract.
MatchTemplate_AnyHash(B, t, map) ==
    [B EXCEPT !.txContractHash = t.contractHash,
              !.txRejectReason =
                  IF t.contractHash = createContractHash
                  THEN verifyTemplate(t.payload, createContractTemplate, 2)
                  ELSE IF t.contractHash = deleteContractHash
                  THEN verifyTemplate(t.payload, deleteContractTemplate, 2)
                  ELSE None,
              !.isSpecialContract = t.contractHash \in {createContractHash, deleteContractHash}]

MatchTemplate(B, t, map) ==
    LET key == toString(t.contractHash)
    IN  IF t.contractHash = createContractHash
        THEN [B EXCEPT !.txContractHash = t.contractHash,
                       !.txRejectReason =
                           verifyTemplate(t.payload, createContractTemplate, 2),
                       !.isSpecialContract = TRUE]
        ELSE IF t.contractHash = deleteContractHash
        THEN [B EXCEPT !.txContractHash = t.contractHash,
                       !.txRejectReason =
                           verifyTemplate(t.payload, deleteContractTemplate, 2),
                       !.isSpecialContract = TRUE]
        ELSE IF key \notin DOMAIN map
        THEN [B EXCEPT !.txContractHash = t.contractHash,
                       !.txRejectReason = "Contract does not exist."]
        ELSE [B EXCEPT !.txContractHash = t.contractHash,
                       !.txRejectReason =
                           verifyTemplate(t.payload, TemplateEntries(map[key].template),
                                          map[key].validanaVersion)]

\* contract === undefined ? 2 : contract.validanaVersion
ContractVersion(t, map) ==
    IF toString(t.contractHash) \in DOMAIN map
    THEN map[toString(t.contractHash)].validanaVersion ELSE 2

\* The call of finishProcessingTx up to its await: Promise.all is called with
\* the promises processFastQueries holds now.
Snapshot(Q) ==
    [i \in 1..Len(Q) |-> IF Q[i].arr = "arr" THEN [Q[i] EXCEPT !.arr = "snap"] ELSE Q[i]]

\* Where a step of processTx leaves it: the static fields, the queue, the
\* arguments of finishProcessingTx, and who runs next.
FinishCall(S, vtx, ver) ==
    [B |-> S.B, Q |-> Snapshot(S.Q), vtx |-> vtx, ver |-> ver, pc |-> "drain",
     main |-> "none", handler |-> HandlerIdle]

\* The catch block of processTx.
Caught(S, vtx) ==
    FinishCall([S EXCEPT !.B = invalidate(@, "Error during contract execution", FALSE,
                                          "Error", 0)], vtx, 2)

\* The handler or the guest code awaits: processTx stays at its await.
Awaiting(S, vtx, ver, h, m) ==
    [B |-> S.B, Q |-> S.Q, vtx |-> vtx, ver |-> ver, pc |-> "exec", main |-> m, handler |-> h]

Install(n) ==
    /\ Basic' = n.B
    /\ dbQueue' = n.Q
    /\ validatedTx' = n.vtx
    /\ version' = n.ver
    /\ pc' = n.pc
    /\ main' = n.main
    /\ handler' = n.handler

(***************************************************************************)
(* The finish of finishProcessingTx, from the reports to the result.       *)
(***************************************************************************)
\* A mutant of AllSettled: finishProcessingTx goes on without the promises.
AllSettled_NotAwaited == TRUE

\* Promise.all has resolved: none of the promises it was called with is pending.
AllSettled == \A i \in 1..Len(dbQueue) : dbQueue[i].arr # "snap"

\* Code of the processor or of the guest is ready to go on after an await that
\* has resolved.  It runs before the next event is handled: an answer of the
\* connection, an event of the connection, the end of Log.error, or the next
\* call of processTx by the caller.
Ready == main = "run" \/ stray = "run" \/ (pc = "drain" /\ AllSettled)

IsSpecial(vtx) == vtx.defined /\ vtx.contractHash \in {createContractHash, deleteContractHash}

\* A mutant of Promote: a reject reason stays a reject reason.
Promote_Never(B, vtx) == B

\* Reject is promoted to invalid for the create and delete contracts.
Promote(B, vtx) ==
    IF IsSpecial(vtx) /\ B.txRejectReason # None
    THEN invalidate(B, B.txRejectReason, FALSE, None, 0)
    ELSE B

\* The entry finishProcessingTx caches of a create contract payload.
ContractOfPayload(payload, from) ==
    [creator |-> from, type |-> payload.type,
     template |-> IF SubSeq(payload.template, 1, 4) = "str:"
                  THEN ParseTemplate(payload.template) ELSE payload.template,
     code |-> Source(payload.code, payload.vv),
     validanaVersion |-> VersionOf(payload.vv)]

\* A mutant of UpdateRegistry: the registry follows the payload whatever the outcome.
UpdateRegistry_Always(map, B, vtx) ==
    IF ~IsSpecial(vtx) THEN map
    ELSE IF vtx.contractHash = createContractHash
    THEN IF vtx.payload.code # ""
         THEN MapSet(map, toString(hash256(Source(vtx.payload.code, vtx.payload.vv))),
                     ContractOfPayload(vtx.payload, vtx.from))
         ELSE map
    ELSE MapDelete(map, toString(vtx.payload.hash))

\* The registry after the create or delete contract finished.
UpdateRegistry(map, B, vtx) ==
    IF ~IsSpecial(vtx) \/ B.txInvalidReason # None THEN map
    ELSE IF vtx.contractHash = createContractHash
    THEN IF vtx.payload.code # ""
         THEN MapSet(map, toString(hash256(Source(vtx.payload.code, vtx.payload.vv))),
                     ContractOfPayload(vtx.payload, vtx.from))
         ELSE map
    ELSE MapDelete(map, toString(vtx.payload.hash))

\* A mutant of ResultOf: the reject reason is looked at before the invalid reason.
ResultOf_RejectFirst(B, ver) ==
    IF B.txShouldRetry THEN [status |-> "retry", message |-> Str("")]
    ELSE IF B.txRejectReason # None
    THEN [status |-> "rejected", message |-> Str(B.txRejectReason)]
    ELSE IF B.txInvalidReason # None
    THEN [status |-> "invalid", message |-> Str(B.txInvalidReason)]
    ELSE IF ver = 1 /\ B.txAcceptReason # Str("OK")
    THEN [status |-> "v1Rejected", message |-> B.txAcceptReason]
    ELSE [status |-> "accepted", message |-> B.txAcceptReason]

\* The result processTx resolves with.
ResultOf(B, ver) ==
    IF B.txShouldRetry THEN [status |-> "retry", message |-> Str("")]
    ELSE IF B.txInvalidReason # None
    THEN [status |-> "invalid", message |-> Str(B.txInvalidReason)]
    ELSE IF B.txRejectReason # None
    THEN [status |-> "rejected", message |-> Str(B.txRejectReason)]
    ELSE IF ver = 1 /\ B.txAcceptReason # Str("OK")
    THEN [status |-> "v1Rejected", message |-> B.txAcceptReason]
    ELSE [status |-> "accepted", message |-> B.txAcceptReason]

\* A mutant of FinishTail: the result is given with isProcessing left set.
FinishTail_StillProcessing ==
    LET B == IF validatedTx.defined THEN Promote(Basic, validatedTx) ELSE Basic
        res == ResultOf(B, version)
    IN  /\ Basic' = B
        /\ this' = [this EXCEPT !.contractMap = UpdateRegistry(@, B, validatedTx)]
        /\ result' = res
        /\ inFlight' = inFlight - 1
        /\ pc' = "idle"
        /\ obs' = [obs EXCEPT !.onlyAccepted =
                        @ /\ IsSpecial(validatedTx) /\ res.status = "accepted"]
        /\ UNCHANGED <<client, raised, validatedTx, version, handler, main, stray,
                       dbQueue, db, exitCode>>

\* finishProcessingTx from the promotion of a reject reason to the result.
FinishTail ==
    LET B == IF validatedTx.defined THEN Promote(Basic, validatedTx) ELSE Basic
        res == ResultOf(B, version)
    IN  /\ Basic' = B
        /\ this' = [this EXCEPT !.isProcessing = FALSE,
                                !.contractMap = UpdateRegistry(@, B, validatedTx)]
        /\ result' = res
        /\ inFlight' = inFlight - 1
        /\ pc' = "idle"
        /\ obs' = [obs EXCEPT !.onlyAccepted =
                        @ /\ IsSpecial(validatedTx) /\ res.status = "accepted"]
        /\ UNCHANGED <<client, raised, validatedTx, version, handler, main, stray,
                       dbQueue, db, exitCode>>

\* finishProcessingTx after Promise.all resolved: the sandbox is left, and an
\* error recorded for a well-formed transaction is reported: by shutdown when
\* it carries an exit code, by Log.error otherwise.
Drained ==
    /\ pc = "drain"
    /\ UNCHANGED lab
    /\ AllSettled
    /\ sandboxed' = FALSE
    /\ IF validatedTx.defined /\ Basic.txError # None
       THEN IF Basic.txErrorExitCode # 0
            THEN /\ pc' = "exited"
                 /\ exitCode' = Basic.txErrorExitCode
                 /\ client' = None
                 /\ UNCHANGED <<this, Basic, inFlight, raised, validatedTx, version, handler,
                                main, stray, dbQueue, db, result, obs>>
            ELSE /\ pc' = "report"
                 /\ UNCHANGED <<this, Basic, client, inFlight, raised, validatedTx, version,
                                handler, main, stray, dbQueue, db, result, exitCode, obs>>
       ELSE FinishTail

\* Log.error resolved.
Reported ==
    /\ pc = "report"
    /\ UNCHANGED lab
    /\ ~Ready
    /\ FinishTail
    /\ UNCHANGED sandboxed

(***************************************************************************)
(* createContract and deleteContract, each from one await to the next.     *)
(***************************************************************************)
\* The row createContract inserts.
RowOf(payload, from) ==
    [contract_hash |-> hash256(Source(payload.code, payload.vv)),
     contract_type |-> payload.type, creator |-> from,
     contract_template |-> TemplateOf(payload.template), code |-> payload.code,
     validana_version |-> VersionOf(payload.vv)]

\* The handler returned value: it is assigned to txAcceptReason and processTx finishes.
Returned(S, vtx, value) ==
    FinishCall([S EXCEPT !.B.txAcceptReason = value], vtx, 2)

\* return Basic.reject(reason)
Rejected(S, vtx, reason) ==
    Returned([S EXCEPT !.B = reject(@, Str(reason))], vtx, Undefined)

\* The handler awaits the querySC call that left r: the call raised, or the
\* handler waits at position at.
HandlerAwaits(r, vtx, at, timeout) ==
    IF r.raised
    THEN Caught(r, vtx)
    ELSE Awaiting(r, vtx, 2, [at |-> at, statementTimeout |-> timeout], "none")

\* createContract from its start to the SELECT; c is the outcome of its checks.
StartCreate(S, vtx, c) ==
    IF c = "throw" THEN Caught(S, vtx)
    ELSE IF c # None THEN Rejected(S, vtx, c)
    ELSE HandlerAwaits(
            querySC(querySCFast(S, client, SetRoleManager, NoArg, TRUE), client, SelectContract,
                    [NoArg EXCEPT !.hash = RowOf(vtx.payload, vtx.from).contract_hash],
                    "handler", TRUE),
            vtx, "select", "")

\* createContract from the INSERT to its end.
FinishCreate(S, vtx) ==
    Returned(
        querySCFast(
            IF vtx.payload.code # ""
            THEN querySCFast(querySCFast(S, client, SetRoleManager, NoArg, TRUE), client,
                             InsertContract,
                             [NoArg EXCEPT !.row = RowOf(vtx.payload, vtx.from)], TRUE)
            ELSE S,
            client, SetRoleContract, NoArg, TRUE),
        vtx, Str("OK"))

\* createContract after the SELECT: the contract exists, or the init section
\* starts with SHOW statement_timeout, or there is no init.
AfterSelect(S, vtx, count) ==
    IF count > 0
    THEN Rejected(S, vtx, "Trying to create an invalid contract: contract already exists")
    ELSE IF vtx.payload.init # ""
    THEN HandlerAwaits(querySC(S, client, ShowTimeout, NoArg, "handler", TRUE), vtx, "show", "")
    ELSE FinishCreate(S, vtx)

\* The init function is called.
InitCalled(r, vtx, value) ==
    Awaiting([r EXCEPT !.B.isSpecialContract = FALSE,
                       !.B.txContractHash = RowOf(vtx.payload, vtx.from).contract_hash],
             vtx, 2, [at |-> "init", statementTimeout |-> value], "run")

\* A mutant of AfterShow: the init function is called with the timeout as it is.
AfterShow_KeepsTimeout(S, vtx, value) ==
    InitCalled(querySCFast(S, client, SetRoleContract, NoArg, TRUE), vtx, value)

\* createContract after SHOW statement_timeout, up to the call of the init function.
AfterShow(S, vtx, value) ==
    InitCalled(querySCFast(querySCFast(S, client, SetTimeoutZero, NoArg, TRUE), client,
                           SetRoleContract, NoArg, TRUE),
               vtx, value)

\* createContract after the init function resolved.
AfterInit(S, vtx, timeout) ==
    HandlerAwaits(
        querySC([S EXCEPT !.B.isSpecialContract = TRUE, !.B.txContractHash = createContractHash],
                client, RestoreTimeout(timeout), NoArg, "handler", TRUE),
        vtx, "restore", "")

\* The catch of the init function: the error is thrown on.
InitRaised(S, vtx) ==
    Caught([S EXCEPT !.B.txContractHash = createContractHash], vtx)

\* deleteContract from its start to the DELETE.
StartDelete(S, vtx) ==
    HandlerAwaits(
        querySC(querySCFast(S, client, SetRoleManager, NoArg, TRUE), client, DeleteContract,
                [NoArg EXCEPT !.hash = vtx.payload.hash, !.creator = vtx.from],
                "handler", TRUE),
        vtx, "delete", "")

\* deleteContract after the DELETE.
AfterDelete(S, vtx, count) ==
    IF count = 0
    THEN Rejected(S, vtx, "Not creator of contract or contract: " \o vtx.payload.hash
                          \o " does not exist.")
    ELSE Returned(querySCFast(S, client, SetRoleContract, NoArg, TRUE), vtx, Str("OK"))

(***************************************************************************)
(* processTx.                                                              *)
(***************************************************************************)
\* A mutant of Refuse: the guard stands after the reset of the static fields.
Refuse_AfterReset ==
    /\ raised' = "Was still processing."
    /\ obs' = [obs EXCEPT !.txs = @ + 1]
    /\ Basic' = Prepare(Basic)
    /\ dbQueue' = Spliced(dbQueue)
    /\ UNCHANGED <<this, sandboxed, client, pc, inFlight, validatedTx, version,
                   handler, main, stray, db, result, exitCode>>

\* A call that finds the instance processing is refused.
Refuse ==
    /\ raised' = "Was still processing."
    /\ obs' = [obs EXCEPT !.txs = @ + 1]
    /\ UNCHANGED <<this, Basic, sandboxed, client, pc, inFlight, validatedTx, version,
                   handler, main, stray, dbQueue, db, result, exitCode>>

\* The transaction validateTx returns.
TxOf(t) ==
    [defined |-> TRUE, contractHash |-> t.contractHash, from |-> t.from, payload |-> t.payload]

\* processTx from the sandbox on: the contract is called.
Execute_(S, t, vtx) ==
    IF t.contractHash = createContractHash
    THEN StartCreate(S, vtx, CreateChecks(vtx.payload, vtx.from, t.processor))
    ELSE IF t.contractHash = deleteContractHash
    THEN StartDelete(S, vtx)
    ELSE Awaiting(S, vtx, ContractVersion(t, this.contractMap), HandlerIdle, "run")

\* processTx after validateTx returned v.
Validated(v, Q, t) ==
    IF ~v.valid THEN FinishCall(Thread(v.B, Q), NoTx, 2)
    ELSE IF MatchTemplate(v.B, t, this.contractMap).txRejectReason # None
    THEN FinishCall(Thread(MatchTemplate(v.B, t, this.contractMap), Q), TxOf(t), 2)
    ELSE Execute_(Thread(MatchTemplate(v.B, t, this.contractMap), Q), t, TxOf(t))

\* A mutant of Executes: the sandbox is entered for user contracts only.
Executes_UserOnly(v, t) ==
    /\ v.valid /\ MatchTemplate(v.B, t, this.contractMap).txRejectReason = None
    /\ t.contractHash \notin {createContractHash, deleteContractHash}

\* The sandbox is entered when the transaction is valid and matches its template.
Executes(v, t) ==
    v.valid /\ MatchTemplate(v.B, t, this.contractMap).txRejectReason = None

Admit(t) ==
    /\ this' = [this EXCEPT !.isProcessing = TRUE]
    /\ inFlight' = inFlight + 1
    /\ raised' = None
    /\ result' = NoResult
    /\ obs' = [ObsInit EXCEPT !.txs = obs.txs + 1, !.steps = obs.steps,
                              !.onlyAccepted = obs.onlyAccepted, !.args = ArgsOf(t)]
    /\ \E v \in {validateTx(Prepare(Basic), t, this.signPrefix)} :
          /\ sandboxed' = (sandboxed \/ Executes(v, t))
          /\ \E n \in {Validated(v, Spliced(dbQueue), t)} : Install(n)
    /\ UNCHANGED <<client, stray, db, exitCode>>

ProcessTx(t) ==
    /\ pc # "exited"
    /\ UNCHANGED lab
    /\ ~Ready
    /\ obs.txs < MaxTx
    /\ IF StillProcessing THEN Refuse ELSE Admit(t)

(***************************************************************************)
(* What the specification says of a query text.                            *)
(***************************************************************************)
WordChars ==
    {"a", "b", "c", "d", "e", "f", "g", "h", "i", "j", "k", "l", "m", "n", "o", "p", "q", "r",
     "s", "t", "u", "v", "w", "x", "y", "z", "_", "0", "1", "2", "3", "4", "5", "6", "7", "8",
     "9"}

\* The keyword word stands at position i of the text, as a whole word.
KeywordAt(s, i, word) ==
    /\ LitAt(s, i, word, TRUE)
    /\ i + Len(word) > Len(s) \/ Lower(Ch(s, i + Len(word))) \notin WordChars

\* The text starts with the keyword first, followed after white space by next.
KeywordsAt(s, first, next) ==
    /\ KeywordAt(s, 1, first)
    /\ \E j \in (Len(first) + 2)..Len(s) :
          SpacesAt(s, Len(first) + 1, j - 1) /\ KeywordAt(s, j, next)

\* The text starts with one of the allowed keywords.
FirstKeywordAllowed(query) ==
    LET q == Normalize(query)
    IN  \/ \E w \in {"delete", "insert", "select", "update", "with"} : KeywordAt(q, 1, w)
        \/ \E w \in {"alter", "drop", "create"} :
              \E o \in {"index", "table", "type"} : KeywordsAt(q, w, o)
        \/ /\ KeywordsAt(q, "create", "unique")
           /\ \E j \in 8..Len(q) : \E k \in (j + 7)..Len(q) :
                 /\ SpacesAt(q, 7, j - 1)
                 /\ KeywordAt(q, j, "unique")
                 /\ SpacesAt(q, j + 6, k - 1)
                 /\ KeywordAt(q, k, "index")

\* The text has a ; before its last character, a -- or a time request.
HasForbidden(query) ==
    LET q == Normalize(query)
    IN  \/ \E i \in 1..(Len(q) - 1) : Ch(q, i) = ";"
        \/ \E i \in 1..Len(q) : LitAt(q, i, "--", FALSE)
        \/ \E i \in 1..Len(q) :
              \E w \in {"localtime", "current_date", "current_time"} : LitAt(q, i, w, TRUE)

\* The text is one of the role and timeout statements.
IsRoleOrTimeout(query) ==
    LET q == Normalize(query)
    IN  \/ q \in {SetRoleContract, SetRoleManager, ShowTimeout}
        \/ LitAt(q, 1, "SET LOCAL statement_timeout = ", FALSE)

(***************************************************************************)
(* Guest code: the body of a user contract, or the init body of a create   *)
(* contract payload.  It runs in steps between its awaits.                 *)
(***************************************************************************)
GuestRuns == pc = "exec" /\ main = "run"

GuestCalls == GuestRuns /\ obs.steps < MaxSteps

\* What the specification says of the texts querySC is called with.
Said ==
    [q \in AllTexts |-> [forbidden |-> HasForbidden(q), keyword |-> FirstKeywordAllowed(q),
                         role |-> IsRoleOrTimeout(q)]]

\* Whether an invalid reason was recorded before.
FirstOrLater(B) == IF B.txInvalidReason = None THEN "first" ELSE "later"

\* The observations of a call of query or queryFast by guest code.
Observed(o, B, query, again) ==
    [o EXCEPT !.steps = @ + 1,
              !.forbidden = IF @ = "none" /\ Said[query].forbidden
                            THEN (IF B.txInvalidReason = None THEN "first" ELSE "later")
                            ELSE @,
              !.keyword = @ \/ (~B.isSpecialContract /\ ~Said[query].keyword),
              !.role = @ \/ (~B.isSpecialContract /\ Said[query].role),
              !.invalidateAgain = @ \/ again,
              !.noConnection = IF @ = "none" /\ client = None
                                  /\ Checked[query][B.isSpecialContract] = "pass"
                               THEN FirstOrLater(B) ELSE @]

\* reject(reason)
GuestReject(reason) ==
    /\ GuestCalls
    /\ UNCHANGED lab
    /\ Basic' = reject(Basic, reason)
    /\ obs' = [obs EXCEPT !.steps = @ + 1, !.rejectAgain = @ \/ Basic.txRejectReason # None]
    /\ UNCHANGED <<this, sandboxed, client, pc, inFlight, raised, validatedTx, version,
                   handler, main, stray, dbQueue, db, result, exitCode>>

\* await query(text, []): it raises in the call, or the guest code waits.
GuestQuery(query) ==
    /\ GuestCalls
    /\ UNCHANGED lab
    /\ \E r \in {querySC(Thread(Basic, dbQueue), client, query, NoArg, "main", TRUE)} :
          /\ Basic' = r.B
          /\ dbQueue' = r.Q
          /\ main' = IF r.raised THEN "run" ELSE "wait"
          /\ obs' = Observed(obs, Basic, query, r.raised /\ Basic.txInvalidReason # None)
    /\ UNCHANGED <<this, sandboxed, client, pc, inFlight, raised, validatedTx, version,
                   handler, stray, db, result, exitCode>>

\* queryFast(text, [])
GuestQueryFast(query) ==
    /\ GuestCalls
    /\ UNCHANGED lab
    /\ \E r \in {querySCFast(Thread(Basic, dbQueue), client, query, NoArg, TRUE)} :
          /\ Basic' = r.B
          /\ dbQueue' = r.Q
          /\ obs' = Observed(obs, Basic, query, Len(r.Q) = Len(dbQueue))
    /\ UNCHANGED <<this, sandboxed, client, pc, inFlight, raised, validatedTx, version,
                   handler, main, stray, db, result, exitCode>>

\* The guest code calls an async function without awaiting it; the function
\* awaits a query of its own.
Spawn ==
    /\ GuestCalls
    /\ UNCHANGED lab
    /\ stray = "none"
    /\ \E r \in {querySC(Thread(Basic, dbQueue), client, "SELECT 1", NoArg, "stray", TRUE)} :
          /\ Basic' = r.B
          /\ dbQueue' = r.Q
          /\ stray' = IF r.raised THEN "none" ELSE "wait"
          /\ obs' = Observed(obs, Basic, "SELECT 1", r.raised /\ Basic.txInvalidReason # None)
    /\ UNCHANGED <<this, sandboxed, client, pc, inFlight, raised, validatedTx, version,
                   handler, main, db, result, exitCode>>

\* The function called without await goes on after its query: it calls
\* queryFast and ends.
StrayQueryFast(query) ==
    /\ stray = "run"
    /\ UNCHANGED lab
    /\ pc # "exited"
    /\ \E r \in {querySCFast(Thread(Basic, dbQueue), client, query, NoArg, pc # "idle")} :
          /\ Basic' = r.B
          /\ dbQueue' = r.Q
          /\ obs' = IF pc # "idle"
                    THEN [Observed(obs, Basic, query, Len(r.Q) = Len(dbQueue))
                            EXCEPT !.steps = obs.steps]
                    ELSE obs
    /\ stray' = "none"
    /\ UNCHANGED <<this, sandboxed, client, pc, inFlight, raised, validatedTx, version,
                   handler, main, db, result, exitCode>>

\* A mutant of AcceptReason: the value is kept whatever its type.
AcceptReason_Raw(value) == value

\* What processTx assigns to txAcceptReason of what a user contract returned.
AcceptReason(value) == IF value.type = "string" THEN value ELSE Str("Unknown result type")

\* The guest code returns value.
MainReturn(value) ==
    /\ GuestRuns
    /\ UNCHANGED lab
    /\ \E n \in {IF handler.at = "init"
                 THEN AfterInit(Thread(Basic, dbQueue), validatedTx, handler.statementTimeout)
                 ELSE FinishCall(Thread([Basic EXCEPT !.txAcceptReason = AcceptReason(value)],
                                        dbQueue), validatedTx, version)} : Install(n)
    /\ obs' = IF handler.at = "init" THEN obs ELSE [obs EXCEPT !.returned = value]
    /\ UNCHANGED <<this, sandboxed, client, inFlight, raised, stray, db, result, exitCode>>

\* The guest code raises.
MainThrow ==
    /\ GuestRuns
    /\ UNCHANGED lab
    /\ \E n \in {IF handler.at = "init"
                 THEN InitRaised(Thread(Basic, dbQueue), validatedTx)
                 ELSE Caught(Thread(Basic, dbQueue), validatedTx)} : Install(n)
    /\ UNCHANGED <<this, sandboxed, client, inFlight, raised, stray, db, result, exitCode, obs>>

(***************************************************************************)
(* The connection answers the statement at the head of its queue: querySC  *)
(* goes on after its await, and so does the code that awaits querySC.      *)
(***************************************************************************)
\* What the statement may end with: what the server makes of it, or a failure
\* of the server or of the connection.  Nothing succeeds on a lost connection,
\* and its errors carry no SQLSTATE.
Outcomes(d, e, cl) ==
    IF cl = None
    THEN {[db |-> [d EXCEPT !.aborted = TRUE], failed |-> TRUE, code |-> None, count |-> 0,
           value |-> ""]}
    ELSE IF d.aborted THEN {Execute(d, e)}
    ELSE {Execute(d, e)}
         \cup {[db |-> [d EXCEPT !.aborted = TRUE], failed |-> TRUE, code |-> c, count |-> 0,
                value |-> ""] : c \in ErrorCodes}

\* The promise at the head of the pending ones of processFastQueries settles.
Settle(flags) ==
    IF \A i \in 1..Len(flags) : flags[i] THEN flags
    ELSE [flags EXCEPT ![Min({i \in 1..Len(flags) : ~flags[i]})] = TRUE]

\* The continuation of createContract or deleteContract after its query.
HandlerResumes(S, x) ==
    IF x.failed THEN Caught(S, validatedTx)
    ELSE IF handler.at = "select" THEN AfterSelect(S, validatedTx, x.count)
    ELSE IF handler.at = "show" THEN AfterShow(S, validatedTx, x.value)
    ELSE IF handler.at = "restore" THEN FinishCreate(S, validatedTx)
    ELSE AfterDelete(S, validatedTx, x.count)

\* The catch of querySCFast, and the promise settles.
FastSettled(B, e, x) ==
    [(IF x.failed THEN invalidate(B, "Error during contract execution", FALSE, "Error", 0)
      ELSE B) EXCEPT !.processFastQueries = IF e.arr = "no" THEN @ ELSE Settle(@)]

\* What the code awaiting statement e goes on to, after querySC left S.
Completed(e, x, S) ==
    IF e.owner = "handler" /\ handler.at # "none"
    THEN HandlerResumes(S, x)
    ELSE [B |-> IF e.owner = "fast" THEN FastSettled(S.B, e, x) ELSE S.B,
          Q |-> S.Q, vtx |-> validatedTx, ver |-> version, pc |-> pc,
          main |-> IF e.owner = "main" THEN "run" ELSE main, handler |-> handler]

\* The code the answer x carries.
SqlState(x) == IF ~x.failed THEN "00000" ELSE IF x.code = None THEN "nocode" ELSE x.code

\* A mutant of Rethrown: the error built for a constraint violation has no code.
Rethrown_NoCode(code) ==
    IF code = None THEN "nocode"
    ELSE IF SubSeq(code, 1, 2) = "23" THEN "nocode"
    ELSE code

\* The code of the error querySC raises after its catch: of the error it
\* builds for a constraint violation, or of the error of the connection.
Rethrown(code) ==
    IF code = None THEN "nocode"
    ELSE IF SubSeq(code, 1, 2) = "23" THEN code
    ELSE code

\* The observations of the answer x to statement e; B: the static fields after
\* the catch of querySC.
Answered(o, e, x, B) ==
    [o EXCEPT !.fastFailed = @ \/ (e.owner = "fast" /\ e.cur /\ x.failed),
              !.invalidateAgain = @ \/ (e.owner = "fast" /\ e.cur /\ x.failed
                                          /\ B.txInvalidReason # None),
              !.error = IF e.owner = "main"
                        THEN (IF x.failed THEN Rethrown(x.code) ELSE "none")
                        ELSE @,
              !.corrupted = IF /\ @ = "none" /\ e.cur /\ x.failed
                               /\ x.code \in {"XX001", "XX002"}
                               /\ \/ e.owner \in {"main", "stray"}
                                  \/ e.owner = "fast" /\ ~IsSpecial(validatedTx)
                            THEN FirstOrLater(Basic) ELSE @,
              !.noConnection = IF /\ @ = "none" /\ e.owner = "main" /\ x.failed
                                  /\ x.code # None /\ x.code # "08P01"
                                  /\ SubSeq(x.code, 1, 2) = "08"
                               THEN FirstOrLater(Basic) ELSE @,
              !.missed = IF e.owner = "handler" /\ handler.at = "delete" /\ ~x.failed
                            /\ x.count = 0
                         THEN (IF Basic.txInvalidReason = None /\ Basic.txRejectReason = None
                               THEN "first" ELSE "later")
                         ELSE @]

DbComplete ==
    /\ pc # "exited"
    /\ UNCHANGED lab
    /\ ~Ready
    /\ dbQueue # <<>>
    /\ \E x \in Outcomes(db, Head(dbQueue), client) :
        \E B \in {IF x.failed THEN queryFailed(Basic, x.code) ELSE Basic} :
            /\ db' = [x.db EXCEPT !.sqlstate = SqlState(x)]
            /\ \E n \in {Completed(Head(dbQueue), x, Thread(B, Tail(dbQueue)))} : Install(n)
            /\ stray' = IF Head(dbQueue).owner = "stray"
                        THEN (IF x.failed THEN "none" ELSE "run")
                        ELSE stray
            /\ obs' = Answered(obs, Head(dbQueue), x, B)
    /\ UNCHANGED <<this, sandboxed, client, inFlight, raised, result, exitCode>>

\* The connection reports an error or its end: Basic.client is cleared.
ConnectionLost ==
    /\ pc # "exited"
    /\ UNCHANGED lab
    /\ ~Ready
    /\ client # None
    /\ client' = None
    /\ db' = [db EXCEPT !.aborted = TRUE]
    /\ UNCHANGED <<this, Basic, sandboxed, pc, inFlight, raised, validatedTx, version,
                   handler, main, stray, dbQueue, result, exitCode, obs>>

(***************************************************************************)
(* The processor.                                                          *)
(***************************************************************************)
RejectReasons == {Str("nope"), NonString}
ReturnValues == {Str("OK"), Str("no"), NonString}

Next ==
    \/ \E t \in TxInputs : ProcessTx(t)
    \/ \E r \in RejectReasons : GuestReject(r)
    \/ \E q \in QueryTexts : GuestQuery(q)
    \/ \E q \in FastTexts : GuestQueryFast(q)
    \/ Spawn
    \/ \E q \in StrayTexts : StrayQueryFast(q)
    \/ \E v \in ReturnValues : MainReturn(v)
    \/ MainThrow
    \/ DbComplete
    \/ Drained
    \/ Reported
    \/ ConnectionLost

Spec == Init /\ [][Next]_vars

SpecAnyPrefix == InitAnyPrefix /\ [][Next]_vars

(***************************************************************************)
(* Properties.                                                             *)
(***************************************************************************)
\* processTx has resolved with a result.
Resolved == pc = "idle" /\ result.status # "none"

\* The step in which processTx resolves.
Resolves == pc # "idle" /\ pc' = "idle"

ForbiddenMessage == "Invalid query: multiple queries, comments or time request."

\* C1: a processTx call made while isProcessing is true raises and starts nothing,
\* so at most one transaction is in flight on the instance.
C1_OneInFlight ==
    /\ [](inFlight <= 1)
    /\ [][this.isProcessing /\ obs'.txs # obs.txs =>
            /\ raised' = "Was still processing."
            /\ UNCHANGED <<this, Basic, sandboxed, pc, inFlight, validatedTx, version, handler,
                           main, dbQueue, result>>]_vars

C1_Refused == inFlight = 1 /\ raised = "Was still processing."

\* C2: within one processTx call a recorded invalid reason, with its retry flag,
\* error and exit code, and a recorded reject reason are not changed by later
\* calls of invalidate and reject.
C2_FirstReasonWins ==
    [][inFlight' <= inFlight =>
        /\ Basic.txInvalidReason # None =>
              /\ Basic'.txInvalidReason = Basic.txInvalidReason
              /\ Basic'.txShouldRetry = Basic.txShouldRetry
              /\ Basic'.txError = Basic.txError
              /\ Basic'.txErrorExitCode = Basic.txErrorExitCode
        /\ Basic.txRejectReason # None => Basic'.txRejectReason = Basic.txRejectReason]_vars

C2_CalledAgain == obs.rejectAgain /\ obs.invalidateAgain

\* C3: a role or timeout statement called with isSpecialContract false is not
\* sent to the database and the transaction is marked invalid.
C3_RoleOnlySpecial ==
    /\ \A i \in 1..Len(dbQueue) : Said[dbQueue[i].query].role => dbQueue[i].special
    /\ obs.role => Basic.txInvalidReason # None

\* C4: when processTx has resolved, no fast query issued during the call is
\* still waiting on the connection.
C4_FastDrained ==
    Resolved => \A i \in 1..Len(dbQueue) : ~(dbQueue[i].owner = "fast" /\ dbQueue[i].cur)

\* C5: when a fast query issued during the call failed, processTx resolves with
\* neither accepted, v1Rejected nor rejected.
C5_FastFailureInvalid ==
    Resolved /\ obs.fastFailed => result.status \notin {"accepted", "v1Rejected", "rejected"}

\* C6: the registry changes only in the step in which processTx resolves a create
\* or delete contract transaction with a result that is not invalid, retry or
\* rejected.
C6_RegistryFrame ==
    [][this'.contractMap # this.contractMap =>
        /\ Resolves
        /\ IsSpecial(validatedTx)
        /\ result'.status \notin {"invalid", "retry", "rejected"}]_vars

C6_Installed ==
    /\ Resolved
    /\ validatedTx.contractHash = createContractHash
    /\ result.status = "accepted"
    /\ toString(hash256(Prolog \o "x")) \in DOMAIN this.contractMap

\* What C7 compares of a registry: the hashes, each with creator, type, template
\* and validana version.
View(map) ==
    [k \in DOMAIN map |-> [creator |-> map[k].creator, type |-> map[k].type,
                           template |-> map[k].template,
                           validanaVersion |-> map[k].validanaVersion]]

\* C7: after create and delete contract transactions that were accepted, the
\* registry is the one loadSmartContracts builds of basics.contracts, and the
\* contract of an accepted create with code is in it under the hash of its source.
C7_RegistryMatchesTable ==
    Resolved /\ obs.onlyAccepted /\ dbQueue = <<>> =>
        /\ View(this.contractMap) = View(loadSmartContracts(db.contracts))
        /\ validatedTx.contractHash = createContractHash /\ validatedTx.payload.code # "" =>
              toString(hash256(Source(validatedTx.payload.code, validatedTx.payload.vv)))
                 \in DOMAIN this.contractMap

\* C8 (as stated): a create or delete contract transaction with a reject reason
\* resolves as invalid with the reject reason as message.
C8_RejectReasonReturned ==
    [][Resolves /\ IsSpecial(validatedTx) /\ Basic.txRejectReason # None =>
        result' = [status |-> "invalid", message |-> Str(Basic.txRejectReason)]]_vars

\* C8: a create or delete contract transaction with a reject reason never
\* resolves as rejected: it resolves as invalid or retry, and as invalid with the
\* reject reason as message when no invalid reason was recorded before.
C8_NeverRejected ==
    [][Resolves /\ IsSpecial(validatedTx) /\ Basic.txRejectReason # None =>
        /\ result'.status \in {"invalid", "retry"}
        /\ Basic.txInvalidReason = None =>
              result' = [status |-> "invalid", message |-> Str(Basic.txRejectReason)]]_vars

C8_Promoted ==
    /\ Resolved
    /\ validatedTx.contractHash = deleteContractHash
    /\ Basic.txRejectReason # None
    /\ result = [status |-> "invalid", message |-> Str(Basic.txRejectReason)]

C10_KeywordRefused ==
    /\ \A i \in 1..Len(dbQueue) : ~dbQueue[i].special => Said[dbQueue[i].query].keyword
    /\ obs.keyword => Basic.txInvalidReason # None

\* C11: when a query of guest code (awaited or fast) failed with XX001 or XX002
\* during a transaction, processTx does not resolve for it: the process is shut
\* down with exit code 51.
C11_CorruptionShutsDown ==
    /\ obs.corrupted # "none" => ~Resolved
    /\ obs.corrupted # "none" /\ pc = "exited" => exitCode = 51

C13_ConstraintRaised ==
    [][main = "wait" /\ main' = "run" /\ SubSeq(db'.sqlstate, 1, 2) = "23" =>
            /\ obs'.error = db'.sqlstate
            /\ Basic' = Basic]_vars

\* The contract handled the error and returned, and the transaction is accepted.
C13_Accepted ==
    /\ Resolved
    /\ obs.error = "23505"
    /\ Basic.txInvalidReason = None
    /\ result = [status |-> "accepted", message |-> Str("OK")]

\* C14: for a user contract that returned, with no reject and no invalid
\* reason: version 1 gives accepted for "OK" and v1Rejected with the string
\* returned otherwise, version 2 gives accepted with the string returned, and a
\* value that is not a string gives the message "Unknown result type".
C14_ReturnMapping ==
    Resolved /\ obs.returned # NoReturn /\ Basic.txInvalidReason = None
             /\ Basic.txRejectReason = None =>
        LET message == IF obs.returned.type = "string" THEN obs.returned
                       ELSE Str("Unknown result type")
        IN  result = [status |-> IF version = 1 /\ obs.returned # Str("OK")
                                 THEN "v1Rejected" ELSE "accepted",
                      message |-> message]

C14_UnknownType ==
    /\ Resolved
    /\ version = 1
    /\ obs.returned = NonString
    /\ result = [status |-> "v1Rejected", message |-> Str("Unknown result type")]

C17_SignPrefix ==
    /\ [][obs'.txs # obs.txs /\ ~this.isProcessing /\ obs'.args.ctorError = None
            /\ obs'.args.verifySignature /\ this.signPrefix = None
          => /\ Basic'.txShouldRetry
             /\ Basic'.txContractHash = Basic.txContractHash
             /\ Basic'.txRejectReason = None /\ ~Basic'.isSpecialContract
             /\ validatedTx' = NoTx
             /\ sandboxed' = sandboxed /\ main' = "none" /\ handler' = HandlerIdle
             /\ Len(dbQueue') = Len(dbQueue)
             /\ pc' = "drain"]_vars
    /\ [](Resolved /\ obs.args.ctorError = None /\ obs.args.verifySignature
            => result = IF this.signPrefix = None
                        THEN [status |-> "retry", message |-> Str("")]
                        ELSE IF ~obs.args.signatureValid
                        THEN [status |-> "invalid", message |-> Str("Invalid signature.")]
                        ELSE result)

\* The second call on a processor without sign prefix, with verifySignature and
\* a signature that would verify, returned retry.
C17_NoPrefixRetried ==
    /\ Resolved /\ obs.args.verifySignature /\ this.signPrefix = None
    /\ obs.args.signatureValid /\ obs.txs = 2
    /\ result = [status |-> "retry", message |-> Str("")]

\* The message of an expired transaction.
Expired == [status |-> "invalid", message |-> Str("Transaction valid till expired.")]

\* The call got past the construction of the transaction and the signature.
WellFormed == obs.args.ctorError = None /\ ~obs.args.verifySignature

C19_ValidTillInclusive ==
    Resolved /\ WellFormed /\ obs.args.validTill # 0
        /\ obs.args.previousBlockTs = obs.args.validTill
    => result # Expired

\* The message deleteContract rejects with.
NotCreator ==
    Str("Not creator of contract or contract: " \o validatedTx.payload.hash
        \o " does not exist.")

\* C20 as stated: a delete contract transaction whose DELETE matched no row (no
\* contract of that hash, or another creator) returns invalid with the message
\* "Not creator of contract or contract: <hash> does not exist."
C20_NotCreatorInvalid ==
    Resolved /\ obs.missed # "none" => result = [status |-> "invalid", message |-> NotCreator]

(***************************************************************************)
(* The legacy form of query: query(action, table, info, params, usePrivate) *)
(* is converted to a text by convertV1.  A contract hash is 32 bytes.       *)
(***************************************************************************)
HexDigits == "0123456789abcdef"

\* Crypto.binaryToHex of a buffer: two digits for each byte.
RECURSIVE binaryToHex(_)
binaryToHex(buf) ==
    IF buf = << >> THEN ""
    ELSE SubSeq(HexDigits, (Head(buf) \div 16) + 1, (Head(buf) \div 16) + 1)
         \o SubSeq(HexDigits, (Head(buf) % 16) + 1, (Head(buf) % 16) + 1)
         \o binaryToHex(Tail(buf))

\* String.prototype.slice(0, n)
slice(str, n) == SubSeq(str, 1, Min({n, Len(str)}))

\* The words convertV1 starts the text with; None for an action it does not know.
ActionWords(action, params) ==
    CASE action = "INSERT" -> "INSERT INTO "
      [] action = "SELECT" -> "SELECT * FROM "
      [] action = "UPDATE" -> "UPDATE "
      [] action = "DELETE" -> "DELETE FROM "
      [] action = "CREATE" -> "CREATE TABLE IF NOT EXISTS "
      [] action = "DROP" -> "DROP TABLE IF EXISTS "
      [] action = "ALTER" -> "ALTER TABLE "
      [] action = "INDEX" -> "CREATE INDEX IF NOT EXISTS " \o Head(params) \o " ON "
      [] action = "UNIQUE INDEX" ->
            "CREATE UNIQUE INDEX IF NOT EXISTS " \o Head(params) \o " ON "
      [] action = "DROP INDEX" -> "DROP INDEX IF EXISTS "
      [] OTHER -> None

\* `_${Crypto.binaryToHex(Basic.txContractHash).slice(0, 32)}`
PrivateSuffix(hash) == "_" \o slice(binaryToHex(hash), 32)

\* Basic.convertV1 while txContractHash is hash: the text and the parameters, or
\* the invalid reason it records before it throws.  action is a string or a
\* value of another type; table and info are strings and params an array in
\* the calls made here.
convertV1(action, table, info, params, usePrivate, hash) ==
    IF action.type # "string"
    THEN [query |-> None, params |-> << >>, invalid |-> "Invalid query: invalid parameters."]
    ELSE IF ActionWords(action.val, params) = None
    THEN [query |-> None, params |-> << >>, invalid |-> "Invalid query: Invalid action"]
    ELSE [query |-> ActionWords(action.val, params)
                    \o (IF action.val # "DROP INDEX"
                        THEN table \o (IF usePrivate THEN PrivateSuffix(hash) ELSE "") \o " "
                        ELSE "")
                    \o info,
          params |-> IF action.val \in {"INDEX", "UNIQUE INDEX"} THEN << >> ELSE params,
          invalid |-> None]

\* The contract hashes the calls are made under: the hashes of the create and
\* the delete contract, and two hashes with the same first 16 bytes.
Hashes ==
    {[i \in 1..32 |-> 0], [i \in 1..32 |-> 255],
     [i \in 1..32 |-> IF i <= 16 THEN 16 * (i - 1) + 10 ELSE 7],
     [i \in 1..32 |-> IF i <= 16 THEN 16 * (i - 1) + 10 ELSE IF i = 32 THEN 8 ELSE 7]}

LegacyActions ==
    {Str(a) : a \in {"INSERT", "SELECT", "UPDATE", "DELETE", "CREATE", "DROP", "ALTER",
                     "INDEX", "UNIQUE INDEX", "DROP INDEX", "SEQUENCE"}} \cup {NonString}

\* Two contracts make the same legacy call, each under its own hash.
InitLegacy ==
    /\ Constructed("bla")
    /\ lab \in [action : LegacyActions, usePrivate : BOOLEAN, hashes : Hashes \X Hashes,
                 out : {<< >>}]

LegacyQuery ==
    /\ Len(lab.out) < 2
    /\ lab' = [lab EXCEPT !.out =
                  Append(@, convertV1(lab.action, "test2", "(bla2);", <<"ind">>, lab.usePrivate,
                                      lab.hashes[Len(lab.out) + 1]))]
    /\ UNCHANGED procVars

NextLegacy == LegacyQuery

SpecLegacy == InitLegacy /\ [][NextLegacy]_vars

\* C21: with usePrivate = true, the legacy call made under two different
\* contract hashes never names the same table: the private suffixes differ.
C21_PrivateSuffixDiffers ==
    /\ Len(lab.out) = 2 /\ lab.usePrivate /\ lab.hashes[1] # lab.hashes[2]
    /\ lab.out[1].invalid = None /\ lab.action.val # "DROP INDEX"
    => lab.out[1].query # lab.out[2].query

(***************************************************************************)
(* The sandbox: Sandbox.sandbox, Sandbox.unSandbox and what a call of a    *)
(* primitive of the host gives before, in and after the sandbox.           *)
(***************************************************************************)
MaxCalls == 3

\* How the Sandbox class treats a primitive: "wrapped" by a function that
\* throws while Sandbox.sandboxed (Math.random, Date.now, Date.parse, the
\* locale methods of String, Number and Array, the constructor and the methods
\* class deterministicDate overrides), "timer" for a key of makeUndefined,
\* "decoder" for JSON.parse and the URI functions on a malformed input, and
\* "host" for a primitive it does not touch: deterministicDate does not
\* override toLocaleTimeString, which it inherits from the host's Date.
Treatment ==
    [p \in {"Math.random", "Date.now", "new Date()", "Date.parse",
            "String.toLocaleLowerCase", "Number.toLocaleString", "Date.toLocaleString",
            "Date.toLocaleTimeString", "setTimeout", "queueMicrotask",
            "JSON.parse(garbage)", "decodeURI(bad)"} |->
        CASE p \in {"setTimeout", "queueMicrotask"} -> "timer"
          [] p \in {"JSON.parse(garbage)", "decodeURI(bad)"} -> "decoder"
          [] p = "Date.toLocaleTimeString" -> "host"
          [] OTHER -> "wrapped"]

\* The primitives that read the host's clock, draw at random, convert by the
\* host's locale or time zone, or schedule.
Nondeterministic == {p \in DOMAIN Treatment : Treatment[p] # "decoder"}

SandboxInit == [sandboxed |-> FALSE, isSetup |-> FALSE, timers |-> "host", process |-> "host"]

\* Sandbox.sandbox()
sandbox_Again(sb) ==
    [sb EXCEPT !.sandboxed = ~@, !.isSetup = TRUE, !.timers = "undefined",
               !.process = "standin"]

sandbox(sb) ==
    IF ~sb.sandboxed
    THEN [sb EXCEPT !.sandboxed = TRUE, !.isSetup = TRUE, !.timers = "undefined",
                    !.process = "standin"]
    ELSE sb

\* Sandbox.unSandbox()
unSandbox(sb) ==
    IF sb.sandboxed
    THEN [sb EXCEPT !.sandboxed = FALSE, !.timers = "host", !.process = "host"]
    ELSE sb

\* What a call of primitive p gives: a value, undefined, or it raises.
CallPrimitive(sb, p) ==
    CASE Treatment[p] = "wrapped" -> IF sb.isSetup /\ sb.sandboxed THEN "raises" ELSE "value"
      [] Treatment[p] = "timer" -> IF sb.timers = "undefined" THEN "raises" ELSE "value"
      [] Treatment[p] = "decoder" ->
            IF sb.isSetup /\ sb.sandboxed THEN "undefined" ELSE "raises"
      [] OTHER -> "value"

\* lab: the state of class Sandbox and of the globals it changes, and the calls
\* made so far, each with isSandboxed() before it and with what it gave.
InitSandbox ==
    /\ Constructed("bla")
    /\ lab = [sb |-> SandboxInit, log |-> << >>]

Logged(op, gave) ==
    Append(lab.log, [op |-> op, gave |-> gave, inside |-> lab.sb.sandboxed])

Enter ==
    /\ Len(lab.log) < MaxCalls
    /\ lab' = [sb |-> sandbox(lab.sb), log |-> Logged("sandbox", "returns")]
    /\ UNCHANGED procVars

Leave ==
    /\ Len(lab.log) < MaxCalls
    /\ lab' = [sb |-> unSandbox(lab.sb), log |-> Logged("unSandbox", "returns")]
    /\ UNCHANGED procVars

Call(p) ==
    /\ Len(lab.log) < MaxCalls
    /\ lab' = [lab EXCEPT !.log = Logged(p, CallPrimitive(lab.sb, p))]
    /\ UNCHANGED procVars

NextSandbox ==
    \/ Enter
    \/ Leave
    \/ \E p \in DOMAIN Treatment : Call(p)

SpecSandbox == InitSandbox /\ [][NextSandbox]_vars

\* The last call of sandbox or unSandbox in the log, "none" when there is none.
LastSwitch ==
    LET at == {i \in 1..Len(lab.log) : lab.log[i].op \in {"sandbox", "unSandbox"}}
    IN  IF at = {} THEN "none" ELSE lab.log[Max(at)].op

\* C22: sandbox() while sandboxed and unSandbox() while not sandboxed change
\* nothing of the state of the sandbox and return, and isSandboxed() is true
\* exactly when the last of these calls was sandbox().
C22_Idempotent ==
    /\ [][Len(lab'.log) > Len(lab.log)
            /\ \/ lab'.log[Len(lab'.log)].op = "sandbox" /\ lab.sb.sandboxed
               \/ lab'.log[Len(lab'.log)].op = "unSandbox" /\ ~lab.sb.sandboxed
          => lab'.sb = lab.sb /\ lab'.log[Len(lab'.log)].gave = "returns"]_vars
    /\ [](lab.sb.sandboxed <=> LastSwitch = "sandbox")
    /\ [](lab.sb.sandboxed => lab.sb.timers = "undefined" /\ lab.sb.process = "standin")
    /\ [](~lab.sb.sandboxed => lab.sb.timers = "host" /\ lab.sb.process = "host")

\* sandbox() was called twice in a row and then unSandbox(): not sandboxed.
C22_TwiceThenLeft ==
    /\ Len(lab.log) = 3
    /\ lab.log[1].op = "sandbox" /\ lab.log[2].op = "sandbox" /\ lab.log[3].op = "unSandbox"
    /\ ~lab.sb.sandboxed

\* C23: while isSandboxed() is true, a call of a primitive that reads the
\* clock, draws at random, converts by locale or schedules raises, and
\* JSON.parse (and the URI functions) on a malformed input gives undefined.
C23_Deterministic ==
    \A i \in 1..Len(lab.log) :
        lab.log[i].inside /\ lab.log[i].op \in DOMAIN Treatment =>
            lab.log[i].gave =
                IF lab.log[i].op \in Nondeterministic THEN "raises" ELSE "undefined"

\* ---------------------------------------------------------------------------
\* Transactions on the wire (Transaction, basics/transaction.ts).  A buffer is
\* a sequence of bytes.  The numbers of the model are safe integers below
\* 2^31, so Number.isSafeInteger holds of each of them.

\* The most transactions a list holds before it is merged.
MaxRecords == 2

\* Buffer.alloc(n, byte).
alloc(n, byte) == [i \in 1..n |-> byte]

\* Buffer.slice(from, to) of offsets that are not negative: to is clamped.
Slice(buf, from, to) == SubSeq(buf, from + 1, IF to > Len(buf) THEN Len(buf) ELSE to)

\* Crypto.uInt32ToBinary and Crypto.binaryToUInt32: four bytes, lowest first.
uInt32ToBinary(n) ==
    <<n % 256, (n \div 256) % 256, (n \div 65536) % 256, (n \div 16777216) % 256>>

binaryToUInt32(buf) == buf[1] + 256 * buf[2] + 65536 * buf[3] + 16777216 * buf[4]

\* Crypto.uLongToBinary and Crypto.binaryToULong: eight bytes, lowest first;
\* the four highest are zero for every number of the model.
uLongToBinary(n) == uInt32ToBinary(n) \o alloc(4, 0)

binaryToULong(buf) == binaryToUInt32(SubSeq(buf, 1, 4))

\* PublicKey.isValidPublic: 33 bytes, the first 0x02 or 0x03, and a point of
\* the curve; KeyX is the x coordinate of the key of the tests, which is one.
KeyX == alloc(32, 7)

isValidPublic(publicKey) ==
    /\ Len(publicKey) = 33
    /\ publicKey[1] \in {2, 3}
    /\ SubSeq(publicKey, 2, 33) = KeyX

emptyLength == 154

maxPayloadLength == 100000

\* A constructor or a function that raised.
Thrown(message) == [error |-> message, ok |-> FALSE]

\* The checks of the Transaction constructor, on the data and the two fields
\* it read or was given.
Transaction(data, ver, till) ==
    IF ver # 1 THEN Thrown("Unsupported version.")
    ELSE IF till < 0 THEN Thrown("Invalid 'valid till'.")
    ELSE IF Len(data) - 4 < emptyLength THEN Thrown("Unable to construct transaction.")
    ELSE IF Len(data) - 4 - emptyLength > maxPayloadLength THEN Thrown("Payload too large.")
    ELSE IF ~isValidPublic(SubSeq(data, Len(data) - 32, Len(data)))
    THEN Thrown("Invalid public key.")
    ELSE [version |-> ver, ok |-> TRUE, validTill |-> till, data |-> data,
          totalLength |-> Len(data) - 4,
          payloadLength |-> Len(data) - 4 - emptyLength]

\* new Transaction(buffer): a buffer too short for the two fields fails, in
\* the read or in the check of the length.
TransactionOfBuffer(buf) ==
    IF Len(buf) < 61 THEN Thrown("Unable to construct transaction.")
    ELSE Transaction(buf, Slice(buf, 4, 5)[1], binaryToULong(Slice(buf, 53, 61)))

\* new Transaction(dbTransaction): uInt8ToBinary raises for a version that is
\* no byte, uLongToBinary for a negative number.
TransactionOfDB(row) ==
    IF row.version \notin 0..255 \/ row.valid_till < 0
    THEN Thrown("Invalid 'valid till'.")
    ELSE Transaction(uInt32ToBinary(Len(row.payload) + emptyLength)
                        \o <<row.version>> \o row.transaction_id \o row.contract_hash
                        \o uLongToBinary(row.valid_till) \o row.payload
                        \o row.signature \o row.public_key,
                     row.version, row.valid_till)

RECURSIVE Concat(_)
\* Buffer.concat.
Concat(buffers) ==
    IF buffers = << >> THEN << >> ELSE Head(buffers) \o Concat(Tail(buffers))

\* Transaction.merge.
merge(txs) == Concat([i \in 1..Len(txs) |-> txs[i].data])

RECURSIVE unmergeFrom(_, _, _)
\* The loop of Transaction.unmerge and the check after it.
unmergeFrom(buf, location, txs) ==
    IF location <= Len(buf) - 4
    THEN LET totalTransactionLength == binaryToUInt32(Slice(buf, location, location + 4))
         IN  IF location + 4 + totalTransactionLength > Len(buf)
             THEN Thrown("Length of next transaction exceeds total length of data.")
             ELSE LET tx == TransactionOfBuffer(
                                Slice(buf, location, location + 4 + totalTransactionLength))
                  IN  IF ~tx.ok THEN tx
                      ELSE unmergeFrom(buf, location + 4 + totalTransactionLength,
                                       Append(txs, tx))
    ELSE IF location # Len(buf)
         THEN Thrown("Length of remaining data does not match a full transaction.")
         ELSE [ok |-> TRUE, list |-> txs]

\* Transaction.unmerge.
unmerge(buf) == unmergeFrom(buf, 0, << >>)

\* The payloads, as bytes: none, "{" and "{}".
Payloads == {<< >>, <<123>>, <<123, 125>>}

\* A transaction as a peer sends it: the length it announces, the version,
\* valid till, the payload and the first byte of the public key; the id, the
\* contract hash and the signature are those of the tests.
Wire(announced, ver, till, payload, keyByte) ==
    uInt32ToBinary(announced) \o <<ver>> \o alloc(16, 4) \o alloc(32, 8)
        \o uLongToBinary(till) \o payload \o alloc(64, 0) \o <<keyByte>> \o KeyX

\* The buffers a transaction is constructed from: the length announced is
\* that of the rest, nothing, or one more.
Buffers ==
    {Wire(announced, ver, till, payload, keyByte) :
        announced \in {0, emptyLength, emptyLength + 1, emptyLength + 2, emptyLength + 3},
        ver \in {1, 2}, till \in {0, 123}, payload \in Payloads,
        keyByte \in {2, 3, 4}}
    \cup {alloc(n, 1) : n \in {0, 4, 60, 157}}

\* The rows of basics.transactions a transaction is constructed from.
Rows ==
    [version : {1, 2, 256}, contract_hash : {alloc(32, 8)}, payload : Payloads,
     valid_till : {-1, 0, 123}, transaction_id : {alloc(16, 4)},
     signature : {alloc(64, 0)}, public_key : {<<2>> \o KeyX, <<4>> \o KeyX}]

\* Buffers that are no list of transactions: too short, a length beyond the
\* end, and a transaction followed by up to five bytes more.
Junk ==
    {alloc(n, 0) : n \in 1..3} \cup {uInt32ToBinary(9999)}
    \cup {Wire(emptyLength, 1, 0, << >>, 2) \o alloc(n, 0) : n \in 1..5}

\* lab.list: the transactions constructed; lab.last: how the last call of the
\* constructor ended; lab.merged: the buffer given to unmerge, if any;
\* lab.out: what unmerge gave, if it was called.
InitWire ==
    /\ Constructed("bla")
    /\ lab = [out |-> << >>, list |-> << >>, last |-> "none", merged |-> << >>]

Construct(tx) ==
    /\ Len(lab.list) < MaxRecords
    /\ lab.merged = << >>
    /\ lab' = [lab EXCEPT !.list = IF tx.ok THEN Append(@, tx) ELSE @,
                          !.last = IF tx.ok THEN "ok" ELSE tx.error]
    /\ UNCHANGED procVars

NewOfBuffer == \E buf \in Buffers : Construct(TransactionOfBuffer(buf))

NewOfDB == \E row \in Rows : Construct(TransactionOfDB(row))

Merge ==
    /\ lab.merged = << >>
    /\ lab' = [lab EXCEPT !.merged = <<merge(lab.list)>>]
    /\ UNCHANGED procVars

Unmerge ==
    /\ lab.merged # << >>
    /\ lab.out = << >>
    /\ lab' = [lab EXCEPT !.out = <<unmerge(lab.merged[1])>>]
    /\ UNCHANGED procVars

\* unmerge of a buffer that was not merged from a list.
Receive ==
    /\ lab.list = << >>
    /\ lab.merged = << >>
    /\ \E buf \in Junk : lab' = [lab EXCEPT !.merged = <<buf>>, !.last = "received"]
    /\ UNCHANGED procVars

NextWire == NewOfBuffer \/ NewOfDB \/ Merge \/ Unmerge \/ Receive

SpecWire == InitWire /\ [][NextWire]_vars

\* The data of the transactions of a list.
DataOf(txs) == [i \in 1..Len(txs) |-> txs[i].data]

\* C24: unmerge of the merge of a list of constructed transactions gives as
\* many transactions with the same data in the same order (the empty list for
\* the empty buffer), and unmerge of a buffer that does not end on the end of
\* a record, one of 1 to 3 bytes among them, fails.
C24_MergeUnmerge ==
    lab.out # << >> =>
        IF lab.last = "received"
        THEN ~lab.out[1].ok
        ELSE lab.out[1].ok /\ DataOf(lab.out[1].list) = DataOf(lab.list)

\* C25: of every transaction constructed, from a buffer or from a row, the
\* length in the first four bytes of its data is the length of the data less
\* four, and the payload length is that length less 154.
C25_LengthField ==
    \A i \in 1..Len(lab.list) :
        /\ binaryToUInt32(Slice(lab.list[i].data, 0, 4)) = Len(lab.list[i].data) - 4
        /\ lab.list[i].payloadLength = binaryToUInt32(Slice(lab.list[i].data, 0, 4)) - 154

\* ---------------------------------------------------------------------------
\* Blocks (Block, basics/block.ts).

\* The length of a block with no transactions.
blockEmptyLength == 113

\* The longest transactions part of a block that is constructed.
MaxRegion == 9

RECURSIVE Digest(_, _)
\* A sum over the bytes hashed that depends on their order.
Digest(buf, n) ==
    IF n = 0 THEN 0 ELSE (31 * Digest(buf, n - 1) + buf[n] + 1) % 65521

\* Crypto.hash256 of a buffer: 32 bytes that the bytes hashed determine.
hash256OfBuffer(buf) ==
    <<Digest(buf, Len(buf)) % 256, Digest(buf, Len(buf)) \div 256, Len(buf) % 256>>
        \o alloc(29, 5)

\* The loop of the Block constructor over the transactions, from location on:
\* where it stopped and how many records it passed.
RECURSIVE Walk(_, _, _)
Walk(data, location, amount) ==
    IF location + 4 <= Len(data) - 64
    THEN Walk(data, location + binaryToUInt32(Slice(data, location, location + 4)) + 4,
              amount + 1)
    ELSE [location |-> location, transactionsAmount |-> amount]

\* The check after the loop, of no more than that the signature was reached.
BlockEnd_Reached(data, walked) == walked.location >= Len(data) - 64

\* The check after the loop: it stopped where the signature starts.
BlockEnd(data, walked) == walked.location = Len(data) - 64

\* The checks of the Block constructor, on the data and the fields it read
\* or was given.
Block(data, ver, blockId, processedTs) ==
    IF ver # 1 THEN Thrown("Unsupported version.")
    ELSE IF Len(data) - 4 < blockEmptyLength THEN Thrown("Unable to construct block.")
    ELSE IF blockId < 0 THEN Thrown("Invalid blockId.")
    ELSE IF processedTs < 0 THEN Thrown("Invalid block processed timestamp")
    ELSE IF ~BlockEnd(data, Walk(data, 53, 0))
    THEN Thrown("Invalid format for transactions inside block.")
    ELSE [version |-> ver, ok |-> TRUE, data |-> data,
          totalLength |-> Len(data) - 4,
          transactionsAmount |-> Walk(data, 53, 0).transactionsAmount,
          processedTs |-> processedTs, id |-> blockId]

\* new Block(buffer): a buffer too short for the fields fails, in the reads
\* or in the check of the length.
BlockOfBuffer(buf) ==
    IF Len(buf) < 53 THEN Thrown("Unable to construct block.")
    ELSE Block(buf, Slice(buf, 4, 5)[1], binaryToULong(Slice(buf, 5, 13)),
               binaryToULong(Slice(buf, 45, 53)))

\* The data new Block(dbBlock) puts together.
DataOfRow(row) ==
    uInt32ToBinary(Len(row.transactions) + blockEmptyLength) \o <<1>>
        \o uLongToBinary(row.block_id) \o row.previous_block_hash
        \o uLongToBinary(row.processed_ts) \o row.transactions \o row.signature

\* new Block(dbBlock): a negative number fails, in uLongToBinary or in the
\* checks that follow.
BlockOfDB(row) ==
    IF row.block_id < 0 \/ row.processed_ts < 0 THEN Thrown("Invalid blockId.")
    ELSE Block(DataOfRow(row), row.version, row.block_id, row.processed_ts)

\* Block.getPreviousBlockHash and Block.getHash.
getPreviousBlockHash(blk) == Slice(blk.data, 13, 45)

getHash(signPrefix, blk) ==
    hash256OfBuffer(signPrefix \o Slice(blk.data, 4, Len(blk.data) - 64))

\* Block.verifyWithPreviousBlock; previousBlock is << >> for undefined.  Later
\* is the comparison of the two processed timestamps.
Later_OrSame(a, b) == a >= b

Later(a, b) == a > b

verifyWithPreviousBlock(signPrefix, blk, previousBlock) ==
    IF previousBlock # << >>
    THEN IF blk.id = previousBlock[1].id + 1
         THEN [value |-> /\ getPreviousBlockHash(blk) = getHash(signPrefix, previousBlock[1])
                         /\ Later(blk.processedTs, previousBlock[1].processedTs),
               ok |-> TRUE]
         ELSE Thrown("Given previous block is not the previous block.")
    ELSE IF blk.id = 0
         THEN [value |-> getPreviousBlockHash(blk) = alloc(32, 0), ok |-> TRUE]
         ELSE Thrown("Given previous block is not the previous block.")

\* The prefix the processor signs with.
SignPrefix == <<98, 108, 97>>

\* The byte sequences of a length over the bytes 0 and 1.
RECURSIVE Regions(_)
Regions(n) ==
    IF n = 0 THEN {<< >>}
    ELSE {<< >>} \cup {<<b>> \o r : b \in {0, 1}, r \in Regions(n - 1)}

\* A block as a peer sends it.
WireBlock(announced, ver, blockId, previousHash, processedTs, txs) ==
    uInt32ToBinary(announced) \o <<ver>> \o uLongToBinary(blockId) \o previousHash
        \o uLongToBinary(processedTs) \o txs \o alloc(64, 6)

\* The blocks given as the previous one: first and second blocks that follow
\* nothing, with no transactions.
PreviousBlocks ==
    {BlockOfBuffer(WireBlock(blockEmptyLength, 1, blockId, alloc(32, 0), processedTs, << >>)) :
        blockId \in {0, 1}, processedTs \in {1, 2}}

\* The values of previous_block_hash: zeros, the hash of a previous block,
\* and one that is neither.
PreviousHashes ==
    {alloc(32, 0), alloc(32, 9)} \cup {getHash(SignPrefix, p) : p \in PreviousBlocks}

\* The buffers a block is constructed from: every header with no transaction
\* and with one, and one header with every transactions part.
BlockBuffers ==
    {WireBlock(blockEmptyLength + Len(txs), ver, blockId, h, processedTs, txs) :
        ver \in {1, 2}, blockId \in {0, 1, 2}, h \in PreviousHashes,
        processedTs \in {1, 2, 3}, txs \in {<< >>, <<1, 0, 0, 0, 1>>}}
    \cup {WireBlock(announced, 1, 0, alloc(32, 0), 1, txs) :
            announced \in {0, blockEmptyLength}, txs \in Regions(MaxRegion)}
    \cup {alloc(n, 1) : n \in {0, 52, 116}}

\* The rows of basics.blocks a block is constructed from.
BlockRows ==
    [version : {1, 2}, signature : {alloc(64, 6), << >>}, transactions : Regions(5),
     block_id : {-1, 0, 1}, previous_block_hash : {alloc(32, 0)},
     processed_ts : {-1, 2}]

\* lab.given: the data the constructor was called on last; lab.block: the
\* block it constructed, if it did; lab.previous: the block given as the
\* previous one; lab.verdict: what verifyWithPreviousBlock gave.
InitBlock ==
    /\ Constructed("bla")
    /\ lab = [given |-> << >>, block |-> << >>, previous |-> << >>, verdict |-> << >>]

ConstructBlock(buf, blk) ==
    /\ lab.given = << >>
    /\ lab' = [lab EXCEPT !.given = <<buf>>, !.block = <<blk>>]
    /\ UNCHANGED procVars

NewBlockOfBuffer == \E buf \in BlockBuffers : ConstructBlock(buf, BlockOfBuffer(buf))

NewBlockOfDB == \E row \in BlockRows : ConstructBlock(DataOfRow(row), BlockOfDB(row))

GivePrevious ==
    /\ lab.previous = << >>
    /\ lab.verdict = << >>
    /\ \E p \in PreviousBlocks : lab' = [lab EXCEPT !.previous = <<p>>]
    /\ UNCHANGED procVars

Verify ==
    /\ lab.block # << >>
    /\ lab.block[1].ok
    /\ lab.verdict = << >>
    /\ lab' = [lab EXCEPT !.verdict =
                  <<verifyWithPreviousBlock(SignPrefix, lab.block[1], lab.previous)>>]
    /\ UNCHANGED procVars

NextBlock == NewBlockOfBuffer \/ NewBlockOfDB \/ GivePrevious \/ Verify

SpecBlock == InitBlock /\ [][NextBlock]_vars

\* The transactions part of the data of a block is k records, each four
\* bytes of length and as many bytes as they say, and nothing more.
Framed(data, k) ==
    /\ Len(data) >= 53 + 64
    /\ \E cuts \in SUBSET (53..(Len(data) - 64)) :
        /\ Cardinality(cuts) = k + 1
        /\ 53 \in cuts
        /\ Len(data) - 64 \in cuts
        /\ \A c \in cuts :
            c < Len(data) - 64 =>
                /\ c + 4 <= Len(data) - 64
                /\ c + 4 + binaryToUInt32(Slice(data, c, c + 4)) \in cuts
                /\ \A d \in cuts : d > c => d >= c + 4 + binaryToUInt32(Slice(data, c, c + 4))

\* C26: a block is constructed only from data whose transactions part, from
\* offset 53 to the 64 bytes of the signature, is a whole number of records
\* with their lengths in front, and transactionsAmount is that number; data
\* where the records end anywhere else are refused.
C26_WalkEndsAtSignature ==
    lab.given # << >> =>
        /\ lab.block[1].ok =>
              Framed(lab.given[1], lab.block[1].transactionsAmount)
        /\ (\A k \in 0..MaxRegion : ~Framed(lab.given[1], k)) => ~lab.block[1].ok

\* A block of two records was constructed.
C26_TwoRecords ==
    /\ lab.block # << >>
    /\ lab.block[1].ok
    /\ lab.block[1].transactionsAmount = 2
    /\ Len(lab.given[1]) = 53 + 9 + 64

\* The ids fit: the block follows the previous one, or is the first and none
\* was given.
IdsFit ==
    IF lab.previous = << >> THEN lab.block[1].id = 0
    ELSE lab.previous[1].id + 1 = lab.block[1].id

\* previous_block_hash is the hash of the previous block and the block was
\* processed after it; with no previous block, previous_block_hash is zeros.
FollowsPrevious ==
    IF lab.previous = << >>
    THEN Slice(lab.block[1].data, 13, 45) = alloc(32, 0)
    ELSE /\ Slice(lab.block[1].data, 13, 45)
                = hash256OfBuffer(SignPrefix \o Slice(lab.previous[1].data, 4,
                                                      Len(lab.previous[1].data) - 64))
         /\ lab.block[1].processedTs > lab.previous[1].processedTs

\* C27: verifyWithPreviousBlock gives true exactly when the ids fit, the
\* previous block hash is that of the previous block (zeros for the first
\* block) and, with a previous block, the block was processed strictly after
\* it; it raises when the ids do not fit and gives false otherwise.
C27_VerifyWithPrevious ==
    lab.verdict # << >> =>
        /\ lab.verdict[1].ok <=> IdsFit
        /\ lab.verdict[1].ok => (lab.verdict[1].value <=> FollowsPrevious)

\* A second block was verified against the first one and found to follow it.
C27_SecondFollowsFirst ==
    /\ lab.verdict # << >>
    /\ lab.previous # << >>
    /\ lab.previous[1].id = 0
    /\ lab.block[1].id = 1
    /\ lab.verdict[1].ok
    /\ lab.verdict[1].value

\* ---------------------------------------------------------------------------
\* The outcome state with each of the eight fields at its reset value.
Reset(B) == [Prepare(B) EXCEPT !.txAcceptReason = Undefined]

\* C29: a processTx call that is admitted starts from the reset outcome state:
\* error, exit code, retry flag, invalid reason, reject reason, accept reason,
\* fast-query queue and special-contract flag hold nothing of the transaction
\* before, so the static state it leaves at its first await is the one it
\* leaves when it starts from the reset values.
C29_OutcomeReset ==
    [][~this.isProcessing /\ this'.isProcessing =>
          \E t \in TxInputs :
              \E v \in {validateTx(Reset(Basic), t, this.signPrefix)} :
                  Basic' = Validated(v, Spliced(dbQueue), t).B]_vars

\* ---------------------------------------------------------------------------
\* A create contract transaction with an init section is being processed.
CreatesWithInit ==
    /\ validatedTx.defined
    /\ validatedTx.contractHash = createContractHash
    /\ validatedTx.payload.init # ""

\* A statement that guest code of this call awaits or pushed is in the queue.
GuestStatementIssued ==
    \E i \in 1..Len(dbQueue) :
        dbQueue[i].cur /\ (dbQueue[i].owner \in {"main", "stray"} \/ ~dbQueue[i].special)

\* C30: in a create contract transaction with an init section, the statement
\* that sets statement_timeout to 0 is issued when the init function is
\* called, before any statement of guest code of the call; when the init
\* function has resolved the handler issues the statement that sets it to the
\* value SHOW gave before the init function was called, and at that time the
\* row of the contract is neither inserted nor is its INSERT issued; when the
\* row is inserted the handler has returned and no statement that sets
\* statement_timeout is left to run.
C30_TimeoutAroundInit ==
    /\ [](handler.at \in {"select", "show"} => main = "none" /\ ~GuestStatementIssued)
    /\ [][handler.at = "show" /\ handler'.at = "init" =>
             /\ handler'.statementTimeout = db.timeout
             /\ Len(dbQueue') >= 2
             /\ dbQueue'[Len(dbQueue') - 1].query = Normalized[SetTimeoutZero]
             /\ ~GuestStatementIssued']_vars
    /\ [][handler.at = "init" /\ handler'.at = "restore" =>
             /\ dbQueue' # << >>
             /\ dbQueue'[Len(dbQueue')].query
                    = Normalized[RestoreTimeout(handler.statementTimeout)]
             /\ \A i \in 1..Len(dbQueue') : dbQueue'[i].query # Normalized[InsertContract]
             /\ RowOf(validatedTx.payload, validatedTx.from) \notin db'.contracts]_vars
    /\ [][CreatesWithInit /\ db'.contracts \ db.contracts # {} =>
             /\ handler.at = "none"
             /\ Head(dbQueue).query = Normalized[InsertContract]
             /\ \A i \in 1..Len(dbQueue) :
                    dbQueue[i].query \notin {Normalized[SetTimeoutZero]}
                        \cup {Normalized[RestoreTimeout(v)] : v \in Timeouts}]_vars

\* The first transaction created a contract with an init section whose
\* function issued a statement: the row is recorded and statement_timeout is
\* what it was.
C30_CreatedWithInit ==
    /\ CreatesWithInit
    /\ obs.txs = 1
    /\ obs.steps >= 1
    /\ result.status = "accepted"
    /\ RowOf(validatedTx.payload, validatedTx.from) \in db.contracts
    /\ db.timeout = "5s"

\* ---------------------------------------------------------------------------
\* C28: finishProcessingTx leaves the sandbox only when the promises of the
\* fast queries it awaits have settled; it shuts down on an exit code after
\* the sandbox was left and before anything else, so that isProcessing stays
\* set and neither the outcome nor the registry changes; a reject reason of a
\* create or delete contract is promoted before the registry is updated, so
\* that the registry is not updated for it; and isProcessing is cleared in
\* the step that gives the result, outside of the sandbox, which is the only
\* step that changes the registry.
C28_FinishOrder ==
    /\ [][sandboxed /\ ~sandboxed' =>
             pc = "drain" /\ \A i \in 1..Len(dbQueue) : dbQueue[i].arr # "snap"]_vars
    /\ [][pc # "exited" /\ pc' = "exited" =>
             /\ ~sandboxed'
             /\ this' = this
             /\ this.isProcessing
             /\ Basic' = Basic
             /\ result' = result]_vars
    /\ [][this.isProcessing /\ ~this'.isProcessing =>
             /\ ~sandboxed'
             /\ pc \in {"drain", "report"}
             /\ result.status = "none"
             /\ result'.status # "none"
             /\ IsSpecial(validatedTx) /\ Basic.txRejectReason # None =>
                   /\ Basic'.txInvalidReason # None
                   /\ this'.contractMap = this.contractMap
             /\ this'.contractMap # this.contractMap => Basic'.txInvalidReason = None]_vars
    /\ [][this'.contractMap # this.contractMap => this.isProcessing /\ ~this'.isProcessing]_vars
    /\ [](~this.isProcessing => ~sandboxed)

\* A create contract transaction that pushed fast queries and was rejected by
\* the handler has finished: the queries are settled, the sandbox is left,
\* the reject reason is the invalid reason, the contract is not in the
\* registry and the result is given.
C28_RejectedCreateFinished ==
    /\ pc = "idle"
    /\ ~this.isProcessing
    /\ ~sandboxed
    /\ validatedTx.defined
    /\ validatedTx.contractHash = createContractHash
    /\ Len(Basic.processFastQueries) >= 1
    /\ \A i \in 1..Len(Basic.processFastQueries) : Basic.processFastQueries[i]
    /\ Basic.txRejectReason = "Trying to create an invalid contract: contract already exists"
    /\ Basic.txInvalidReason = Basic.txRejectReason
    /\ result.status = "invalid"

\* ---------------------------------------------------------------------------
\* The statement at the head of the connection's queue is run by the server
\* next: the connection has it, and the transaction of the session has not
\* failed.
RunsNext ==
    /\ dbQueue # << >>
    /\ pc # "exited"
    /\ client # None
    /\ ~db.aborted

\* Entry e of the queue was issued by guest code: guest code awaits it, or its
\* text is one only guest code passes.
IssuedByGuest(e) ==
    \/ e.owner \in {"main", "stray"}
    \/ e.query \in {Normalized[q] : q \in (QueryTexts \cup FastTexts \cup StrayTexts)
                                           \ {SetRoleManager}}

\* A create contract transaction is the one processed last.
Creates == validatedTx.defined /\ validatedTx.contractHash = createContractHash

\* C31: in a create contract transaction the SELECT of the existence check
\* and the INSERT of the row run under the role smartcontractmanager, no
\* statement issued by the init body runs under smartcontractmanager, and
\* when the handler has returned "OK" and processTx has resolved the role of
\* the session is smartcontract.
C31_RoleSequence ==
    /\ Creates /\ RunsNext /\ Head(dbQueue).cur
       /\ Head(dbQueue).query \in {Normalized[SelectContract], Normalized[InsertContract]}
           => db.role = "smartcontractmanager"
    /\ Creates /\ RunsNext /\ Head(dbQueue).cur /\ IssuedByGuest(Head(dbQueue))
           => db.role # "smartcontractmanager"
    /\ Creates /\ Resolved /\ result.status = "accepted" => db.role = "smartcontract"

\* ---------------------------------------------------------------------------
\* A second processor instance in the same process.  The fields of an
\* instance are its own (isProcessing, contractMap, signPrefix); the static
\* fields of class Basic and of class Sandbox, and the connection, are those
\* of the process.

\* The second instance makes at most MaxOther calls of processTx in a run.
MaxOther == 1

\* The second instance after its construction, with the calls it made and the
\* result of its latest call.
OtherInit ==
    [result |-> NoResult, isProcessing |-> FALSE,
     contractMap |-> loadSmartContracts(DbInit.contracts), signPrefix |-> "bla", calls |-> 0]

InitShared == Constructed("bla") /\ lab = OtherInit

\* processTx of an instance with the fields of other, up to the sandbox: the
\* static fields after validateTx and the template check, the transaction
\* finishProcessingTx is called with, and whether the call goes on to execute
\* the contract.
UpToSandbox(v, t, other) ==
    IF ~v.valid THEN [B |-> v.B, vtx |-> NoTx, executes |-> FALSE]
    ELSE [B |-> MatchTemplate(v.B, t, other.contractMap), vtx |-> TxOf(t),
          executes |-> MatchTemplate(v.B, t, other.contractMap).txRejectReason = None]

\* finishProcessingTx of a call that executed nothing: the static fields it
\* leaves, and what it leaves of the instance.
Finished(o, other) ==
    [B |-> Promote(o.B, o.vtx),
     other |-> [other EXCEPT !.isProcessing = FALSE,
                             !.contractMap = UpdateRegistry(@, Promote(o.B, o.vtx), o.vtx),
                             !.result = ResultOf(Promote(o.B, o.vtx), 2),
                             !.calls = @ + 1]]

\* The second instance is called with a transaction that is invalid or does
\* not match its template.  Its guard is its own isProcessing; the call resets
\* the static fields, records its reason, awaits Promise.all of the emptied
\* processFastQueries, leaves the sandbox and returns.
OtherProcessTx(t) ==
    /\ pc # "exited"
    /\ ~Ready
    /\ lab.calls < MaxOther
    /\ ~lab.isProcessing
    /\ \E o \in {UpToSandbox(validateTx(Prepare(Basic), t, lab.signPrefix), t, lab)} :
          /\ ~o.executes
          /\ \E f \in {Finished(o, lab)} :
                /\ Basic' = f.B
                /\ lab' = f.other
    /\ dbQueue' = Spliced(dbQueue)
    /\ sandboxed' = FALSE
    /\ UNCHANGED <<this, client, pc, inFlight, raised, validatedTx, version, handler, main,
                   stray, db, result, exitCode, obs>>

\* The transactions the first instance is called with: a create contract with
\* an init section and code.  The transactions the second instance is called
\* with: one the Transaction constructor refuses, and one of a contract its
\* registry does not have.
SharedInputs ==
    {t \in ContractInputs : /\ t.contractHash = createContractHash
                            /\ t.from = t.processor
                            /\ t.payload.init # "" /\ t.payload.code = "x"
                            /\ t.payload.vv = "2" /\ t.payload.check = "ok"
                            /\ t.payload.lens = "ok"}

OtherInputs ==
    {[BaseInput EXCEPT !.ctorError = "Unsupported version."], BaseInput}

NextShared ==
    \/ \E t \in SharedInputs : ProcessTx(t)
    \/ \E r \in RejectReasons : GuestReject(r)
    \/ \E q \in QueryTexts : GuestQuery(q)
    \/ \E q \in FastTexts : GuestQueryFast(q)
    \/ Spawn
    \/ \E q \in StrayTexts : StrayQueryFast(q)
    \/ \E v \in ReturnValues : MainReturn(v)
    \/ MainThrow
    \/ DbComplete
    \/ Drained
    \/ Reported
    \/ ConnectionLost
    \/ \E t \in OtherInputs : OtherProcessTx(t)

SpecShared == InitShared /\ [][NextShared]_vars

\* The step is made through the guest API: a call of reject, query or
\* queryFast by guest code, or the end of a statement whose querySC call goes
\* on for guest code or for a fast query.
ThroughGuestApi ==
    \/ obs'.steps # obs.steps
    \/ stray' # stray
    \/ dbQueue # << >> /\ dbQueue' = Tail(dbQueue)

\* C32: a step that changes the sandbox flag or a static field of class Basic
\* (current contract hash, outcome fields, fast-query queue) is made while no
\* contract body is executing, or through the guest API; also with a second
\* processor instance in the process.
C32_SharedState ==
    [][<<Basic, sandboxed>>' # <<Basic, sandboxed>> =>
          main = "none" \/ main' = "none" \/ ThroughGuestApi]_vars

\* ---------------------------------------------------------------------------
\* The statements of queue Q as they were submitted: the text, its parameters
\* and who awaits it.
Submitted(Q) == [i \in 1..Len(Q) |-> <<Q[i].query, Q[i].arg, Q[i].owner>>]

\* The texts of the statements a step added at the end of the queue, when it
\* took k statements from its head.
Added(k) ==
    [i \in 1..(Len(dbQueue') - (Len(dbQueue) - k)) |-> dbQueue'[Len(dbQueue) - k + i].query]

\* The step took k statements from the head of the queue, left the others in
\* their order and added the new ones behind them.
Fifo(k) ==
    /\ k <= Len(dbQueue)
    /\ Len(dbQueue') >= Len(dbQueue) - k
    /\ SubSeq(Submitted(dbQueue'), 1, Len(dbQueue) - k)
           = SubSeq(Submitted(dbQueue), 1 + k, Len(dbQueue))

\* C33: statements are submitted to the connection in the order of the calls
\* of query and queryFast.  A step leaves the statements that wait in their
\* order, takes at most the one at the head (the one whose answer it handles),
\* and adds the statements it calls behind all that wait; the statements one
\* step calls are added in the order of its calls: of a guest call one
\* statement, of createContract and deleteContract at their start the role
\* and then the SELECT or the DELETE, of createContract before the init
\* function statement_timeout and then the role, and after the restore the
\* role, the INSERT and the role.
C33_IssueOrder ==
    /\ [][Fifo(0) \/ Fifo(1)]_vars
    /\ [][obs'.steps # obs.steps \/ (stray = "run" /\ stray' = "none") =>
             Fifo(0) /\ Len(Added(0)) <= 1]_vars
    /\ [][handler.at = "none" /\ handler'.at = "select" =>
             Fifo(0) /\ Added(0) = <<Normalized[SetRoleManager], Normalized[SelectContract]>>]_vars
    /\ [][handler.at = "none" /\ handler'.at = "delete" =>
             Fifo(0) /\ Added(0) = <<Normalized[SetRoleManager], Normalized[DeleteContract]>>]_vars
    /\ [][handler.at = "show" /\ handler'.at = "init" /\ client # None =>
             Fifo(1) /\ Added(1) = <<Normalized[SetTimeoutZero], Normalized[SetRoleContract]>>]_vars
    /\ [][handler.at = "restore" /\ pc' = "drain" /\ client # None
             /\ db'.sqlstate = "00000" /\ validatedTx.payload.code # "" =>
             Fifo(1) /\ Added(1) = <<Normalized[SetRoleManager], Normalized[InsertContract],
                                     Normalized[SetRoleContract]>>]_vars

\* Statements of the handler and of the init body wait together: a fast
\* statement of the handler, then the statement the init body awaits, then a
\* fast statement it called after.
C33_ThreeWaiting ==
    /\ Len(dbQueue) >= 3
    /\ dbQueue[1].owner = "fast" /\ dbQueue[1].special
    /\ dbQueue[2].owner = "stray"
    /\ dbQueue[3].owner = "fast" /\ ~dbQueue[3].special

\* ---------------------------------------------------------------------------
\* C34: a processTx call that was admitted resolves with one status, chosen of
\* the static outcome in the order retry, invalid, rejected, and v1Rejected or
\* accepted: retry exactly when the retry flag is set, which it is only
\* together with an invalid reason; invalid exactly when an invalid reason is
\* recorded without the retry flag, whether or not a reject reason is
\* recorded; rejected exactly when only a reject reason is recorded; accepted
\* or v1Rejected exactly when neither is recorded.
C34_StatusPrecedence ==
    /\ [](Basic.txShouldRetry => Basic.txInvalidReason # None)
    /\ [][Resolves =>
             /\ result'.status \in {"retry", "invalid", "rejected", "v1Rejected", "accepted"}
             /\ result'.status = "retry" <=> Basic'.txShouldRetry
             /\ result'.status = "invalid" <=>
                    ~Basic'.txShouldRetry /\ Basic'.txInvalidReason # None
             /\ result'.status = "rejected" <=>
                    Basic'.txInvalidReason = None /\ Basic'.txRejectReason # None
             /\ result'.status \in {"v1Rejected", "accepted"} <=>
                    Basic'.txInvalidReason = None /\ Basic'.txRejectReason = None
             /\ result'.status = "v1Rejected" => version = 1
             /\ result'.status = "invalid" => result'.message = Str(Basic'.txInvalidReason)
             /\ result'.status = "rejected" => result'.message = Str(Basic'.txRejectReason)]_vars

\* A user contract called reject and then a statement of it failed: both
\* reasons are recorded and the call resolved with invalid.
C34_BothReasons ==
    /\ Resolved
    /\ ~IsSpecial(validatedTx)
    /\ Basic.txRejectReason # None
    /\ Basic.txInvalidReason # None
    /\ ~Basic.txShouldRetry
    /\ result.status = "invalid"

\* ---------------------------------------------------------------------------
\* C35: the sandbox is active in every state in which a contract body, an
\* init body or a create or delete handler is executing or waits at one of
\* its awaits, and it is inactive when processTx resolves and stays so until
\* the next call: after a validation failure, a template mismatch, an
\* exception during the execution and a success alike.
C35_SandboxBracket ==
    /\ [](pc = "exec" => sandboxed)
    /\ [](main # "none" \/ handler.at # "none" => sandboxed)
    /\ [][Resolves => ~sandboxed']_vars
    /\ [](pc = "idle" => ~sandboxed)
    /\ [][~sandboxed /\ sandboxed' => ~this.isProcessing /\ this'.isProcessing]_vars

\* The init body of a create contract called a query and raised: the call
\* resolved invalid for the exception, outside of the sandbox.
C35_ResolvedAfterException ==
    /\ Resolved
    /\ Creates
    /\ obs.steps >= 1
    /\ Basic.txInvalidReason = "Error during contract execution"
    /\ Basic.txError # None
    /\ ~sandboxed

\* ---------------------------------------------------------------------------
\* C36: isProcessing is set in every state between the admission of a
\* processTx call and its result; the step in which the call resolves, with
\* whichever of the five statuses, clears it; it is clear while no call is in
\* progress, so a call made after a call completed is admitted, not refused.
C36_ProcessingFlag ==
    /\ [](pc \in {"exec", "drain", "report"} => this.isProcessing /\ result.status = "none")
    /\ [](this.isProcessing <=> inFlight = 1)
    /\ [][Resolves =>
             /\ this.isProcessing
             /\ ~this'.isProcessing
             /\ result'.status \in {"retry", "invalid", "rejected", "v1Rejected", "accepted"}]_vars
    /\ [](pc = "idle" => ~this.isProcessing)
    /\ [][pc = "idle" /\ obs'.txs # obs.txs =>
             raised' = None /\ this'.isProcessing /\ inFlight' = 1]_vars

\* A second call was made after the first completed: it was admitted and has
\* completed too.
C36_SecondCompleted ==
    /\ obs.txs = 2
    /\ raised = None
    /\ Resolved
    /\ ~this.isProcessing

\* ---------------------------------------------------------------------------
\* C37: a processTx call that is refused because the instance is processing
\* changes nothing but what its caller sees of it (the error raised to it):
\* the outcome fields, the fast-query queue, the current contract hash and
\* the special-contract flag, the sandbox, isProcessing and the registry, the
\* transaction in flight with its handler and guest code, the statements that
\* wait, the session and the result are as before the call, so the call in
\* flight goes on as it would have without it.
C37_RefusedChangesNothing ==
    [][this.isProcessing /\ obs'.txs # obs.txs =>
          /\ raised' = "Was still processing."
          /\ obs' = [obs EXCEPT !.txs = @ + 1]
          /\ UNCHANGED <<this, Basic, sandboxed, client, pc, inFlight, validatedTx, version,
                         handler, main, stray, dbQueue, db, result, exitCode>>]_vars

\* A call was refused while a create contract was in flight with a fast query
\* pending, and the transaction in flight has resolved accepted since.
C37_InFlightAccepted ==
    /\ obs.txs = 2
    /\ raised = "Was still processing."
    /\ Resolved
    /\ Creates
    /\ result.status = "accepted"
    /\ Len(Basic.processFastQueries) >= 1

\* ---------------------------------------------------------------------------
\* The status of a transaction the caller may commit.
Committable == {"accepted", "v1Rejected", "rejected"}

\* C38: a processTx call that started with the role smartcontract in effect
\* (the first call, and a call after create and delete contracts that were
\* accepted) and resolves accepted, v1Rejected or rejected leaves the role of
\* the session at smartcontract.
C38_RoleRestored ==
    [][Resolves /\ obs.onlyAccepted /\ result'.status \in Committable =>
          db'.role = "smartcontract"]_vars

\* ---------------------------------------------------------------------------
\* C39: while the init function of a create contract runs or waits, the
\* special-contract flag is false and the current contract hash is the hash
\* of the new contract; when the init function has returned or raised, the
\* current contract hash is the hash of the create contract and the
\* special-contract flag is true again.
C39_InitCleanup ==
    /\ [](handler.at = "init" =>
             /\ ~Basic.isSpecialContract
             /\ Basic.txContractHash
                    = RowOf(validatedTx.payload, validatedTx.from).contract_hash)
    /\ [][handler.at = "init" /\ handler'.at # "init" =>
             /\ Basic'.txContractHash = createContractHash
             /\ Basic'.isSpecialContract]_vars

\* ---------------------------------------------------------------------------
\* What the result of a call is chosen of.
Outcome(B) == <<B.txShouldRetry, B.txInvalidReason, B.txRejectReason, B.txAcceptReason>>

\* The transaction in flight has no guest code: a delete contract, or a create
\* contract without an init section.
NoGuestCode ==
    /\ IsSpecial(validatedTx)
    /\ validatedTx.contractHash = createContractHash => validatedTx.payload.init = ""

\* The step is an event of guest code of an earlier transaction: the end of a
\* statement that guest code issued before the call in flight was admitted,
\* or a call of queryFast by a continuation of guest code while the
\* transaction in flight has no guest code of its own.
EarlierGuestEvent ==
    \/ /\ dbQueue # << >>
       /\ ~Head(dbQueue).cur
       /\ Head(dbQueue).owner \in {"main", "stray", "fast"}
       /\ dbQueue' = Tail(dbQueue)
    \/ /\ NoGuestCode
       /\ stray = "run"
       /\ stray' = "none"

\* C40: while a call is in flight, an event of guest code of an earlier
\* transaction leaves what the result is chosen of as it is: the retry flag
\* and the invalid, reject and accept reasons.
C40_OwnEventsOnly ==
    [][this.isProcessing /\ EarlierGuestEvent => Outcome(Basic') = Outcome(Basic)]_vars
====
